---- MODULE Spec2Model ----
(***************************************************************************)
(* helix-media-log: the Durable Append Log Store (src/s3/MediaLog.js), the *)
(* Grouping Pipeline (src/events.js) and the Delivery Handler              *)
(* (src/trigger.js), modelled at the granularity of their blob-store and   *)
(* queue requests.                                                         *)
(***************************************************************************)
EXTENDS Integers, Sequences, FiniteSets, TLC

(***************************************************************************)
(* Bounds of the model.                                                    *)
(***************************************************************************)
\* append calls made by the callers of the store in one behaviour
MaxAppends == 2
\* requests (blob store, queue) that fail with an error in one behaviour
MaxFailures == 1
\* the wall clock runs over the seconds 0..MaxTime
MaxTime == 1
\* crypto.randomBytes(8) is drawn from 0..MaxRnd
MaxRnd == 1
\* messages one receive call of the pipeline returns at most
MaxReceive == 2
\* invocations of the pipeline in one behaviour
MaxPolls == 1
\* messages the transport hands to one invocation of the delivery handler
MaxBatch == 2
\* swap resolutions followed while one delivery message is processed
MaxDepth == 2

(***************************************************************************)
(* Values.                                                                 *)
(***************************************************************************)
\* the two appenders that may run (alone in SpecStore, interleaved in SpecConc)
Procs == {1, 2}

\* media events as the store receives them (the `updates` of append)
Updates ==
  { [mediaHash |-> 1, timestamp |-> 61000],
    [mediaHash |-> 2, timestamp |-> 62999] }

\* the (org, site) options MediaLog.create is called with
Prefixes == { [org |-> "org", site |-> "site"], [org |-> "org", site |-> "*"] }

\* the keys of the events that reach the delivery handler
ContentBusIds == { "k1", "k2" }

\* the contentBusId variant of MediaLog keeps the objects of a key under
\* <contentBusId>/ (its tests); the prefix has no second part
ContentBusPrefix(contentBusId) == [org |-> contentBusId, site |-> ""]

AllPrefixes == Prefixes \cup { ContentBusPrefix(k) : k \in ContentBusIds }

FileIds == [t : 0..MaxTime, r : 0..MaxRnd]

\* the value of a variable that holds no file id
NoId == [t |-> 0 - 1, r |-> 0 - 1]

\* the only line of an empty text: ''.split('\n') is ['']
EmptyLine == NoId

\* non-404 errors of the blob store
ErrorStatuses == {500}

RECURSIVE SeqsUpTo(_, _)
SeqsUpTo(S, n) ==
  IF n = 0 THEN { <<>> }
  ELSE LET shorter == SeqsUpTo(S, n - 1)
       IN  shorter \cup { Append(s, x) : s \in { q \in shorter : Len(q) = n - 1 }, x \in S }

\* the record lists append is called with
Batches == SeqsUpTo(Updates, 2)

Range(s) == { s[i] : i \in 1..Len(s) }

(***************************************************************************)
(* MediaLog.js: constants and pure helpers.                                *)
(***************************************************************************)
MAX_OBJECT_SIZE == 524288

INDEX_FILE == ".index"

META_LAST_EVENT == "last-event-time"

\* DateFormat.format(new Date(ms)): a UTC string with whole seconds
DateFormatFormat(ms) == [sec |-> ms \div 1000]

LastEventTimeFirst(updates) == updates[1].timestamp

\* lastEventTime = updates[updates.length - 1].timestamp
LastEventTime(updates) == updates[Len(updates)].timestamp

\* JSON.stringify / JSON.parse of a value that is JSON
JsonStringify(v) == [json |-> TRUE, value |-> v]

JsonParse(text) == text.value

\* zlib gzip / gunzip
Gzip(text) == [gz |-> text]

Gunzip(buf) == buf.gz

\* bytes one record adds to the stored (compressed) object
ZSize(u) == IF u.mediaHash = 2 THEN 262134 ELSE 100

RECURSIVE SumZ(_)
SumZ(s) == IF s = <<>> THEN 0 ELSE ZSize(Head(s)) + SumZ(Tail(s))

\* ContentLength of the stored object: the length of the gzip stream
ContentLength(body) == 20 + SumZ(JsonParse(Gunzip(body)))

\* logContents.split('\n')
IndexSplit(text) == IF text = <<>> THEN << EmptyLine >> ELSE text

\* logFiles.join('\n')
IndexJoin(logFiles) == IF logFiles = << EmptyLine >> THEN <<>> ELSE logFiles

\* `${org}/${site}/${INDEX_FILE}`
IndexKey(prefix) == [org |-> prefix.org, site |-> prefix.site, name |-> INDEX_FILE]

\* `${org}/${site}/${id}`
LogKey(prefix, id) == [org |-> prefix.org, site |-> prefix.site, id |-> id, ext |-> ""]

\* `${key}.gz`
WithGz(key) == [key EXCEPT !.ext = ".gz"]

\* e.$metadata.httpStatusCode !== 404 rethrows
IsNotFoundAlways(status) == TRUE

IsNotFoundNever(status) == FALSE

IsNotFound(status) == status = 404

\* res.ContentLength < MAX_OBJECT_SIZE
EligibleInclusive(len) == len <= MAX_OBJECT_SIZE

EligibleWithRoom(len) == len + len < MAX_OBJECT_SIZE

Eligible(len) == len < MAX_OBJECT_SIZE

\* logFiles.push(generateID())
PushIdOnly(logFiles, id) == << id >>

PushIdFront(logFiles, id) == << id >> \o logFiles

PushId(logFiles, id) == Append(logFiles, id)

\* Body: logFiles.join('\n') of the index PUT
IndexBodyStale(logFiles) == IndexJoin(SubSeq(logFiles, 1, Len(logFiles) - 1))

IndexBody(logFiles) == IndexJoin(logFiles)

\* contents.push(...updates)
PushAllFront(contents, updates) == updates \o contents

PushAllNew(contents, updates) ==
  LET New(u) == \A i \in 1..Len(contents) : contents[i] # u
  IN  contents \o SelectSeq(updates, New)

PushAll(contents, updates) == contents \o updates

\* if (updates.length)
HasUpdatesAlways(updates) == TRUE

HasUpdates(updates) == Len(updates) > 0

\* return `${key}.gz`
AppendResultNoExt(key) == key

AppendResult(key) == WithGz(key)

(***************************************************************************)
(* events.js: the messages of the input queue and the grouping.            *)
(***************************************************************************)
\* the messages producers have put into the input queue, by MessageId
MsgIds == 1..8

\* a media event as a producer publishes it
Event(contentBusId, n) ==
  [contentBusId |-> contentBusId, mediaHash |-> n, timestamp |-> 60000 + 1000 * n]

\* a text that is no JSON
Bogus == [json |-> FALSE, value |-> [raw |-> "bogus"]]

\* JSON.parse(text) raises a SyntaxError
ParseThrows(text) == ~text.json

\* an SNS notification: the payload is the JSON text in Message
SnsWrap(text) ==
  JsonStringify([TopicArn |-> "arn:aws:sns:us-east-1:012345789012:helix-media-test",
                 Message |-> text])

\* msg.Body of the messages of the input queue
InBody(m) ==
  CASE m = 1 -> JsonStringify(Event("k1", 1))
    [] m = 2 -> SnsWrap(JsonStringify(Event("k1", 2)))
    [] m = 3 -> JsonStringify(Event("k2", 3))
    [] m = 4 -> Bogus
    [] m = 5 -> JsonStringify([mediaHash |-> 5, timestamp |-> 65000])
    [] m = 6 -> JsonStringify(Event("constructor", 6))
    [] m = 7 -> SnsWrap(Bogus)
    [] OTHER -> JsonStringify(Event("", m))

SqsMessage(m) == [MessageId |-> m, Body |-> InBody(m)]

\* what `projects[key]` finds on the object literal {} before any own
\* property is set: the members of Object.prototype
ObjectPrototypeKeys ==
  { "constructor", "__proto__", "toString", "toLocaleString", "valueOf",
    "hasOwnProperty", "isPrototypeOf", "propertyIsEnumerable",
    "__defineGetter__", "__defineSetter__", "__lookupGetter__", "__lookupSetter__" }

\* the position of the own property `key` of projects (0: none); projects is
\* kept in insertion order, the order of Object.values
OwnIndex(projects, key) ==
  IF \E i \in 1..Len(projects) : projects[i].contentBusId = key
  THEN CHOOSE i \in 1..Len(projects) : projects[i].contentBusId = key
  ELSE 0

\* const { contentBusId, ...update } = message
RestOf(message) == [f \in DOMAIN message \ {"contentBusId"} |-> message[f]]

\* addMessage(message, key, projects); project.updates.push raises a
\* TypeError when projects[key] is an inherited member, which doRun catches
AddMessage(message, key, projects) ==
  LET i == OwnIndex(projects, key)
  IN  IF i > 0
      THEN [projects EXCEPT ![i].updates = Append(@, RestOf(message))]
      ELSE IF key \in ObjectPrototypeKeys
      THEN projects
      ELSE Append(projects, [contentBusId |-> key, updates |-> << RestOf(message) >>])

IsSnsNever(body) == FALSE

\* body.TopicArn && body.Message
IsSns(body) == "TopicArn" \in DOMAIN body /\ "Message" \in DOMAIN body

HasKeyDefined(message) == "contentBusId" \in DOMAIN message

\* if (contentBusId)
HasKey(message) == "contentBusId" \in DOMAIN message /\ message.contentBusId # ""

\* the body of the loop over msgs, with its try/catch
GroupOne(projects, msg) ==
  IF ParseThrows(msg.Body) THEN projects
  ELSE LET body == JsonParse(msg.Body)
       IN  IF IsSns(body) /\ ParseThrows(body.Message) THEN projects
           ELSE LET message == IF IsSns(body) THEN JsonParse(body.Message) ELSE body
                IN  IF HasKey(message)
                    THEN AddMessage(message, message.contentBusId, projects)
                    ELSE projects

RECURSIVE GroupFromStop(_, _)
GroupFromStop(projects, msgs) ==
  IF msgs = <<>> \/ ParseThrows(Head(msgs).Body) THEN projects
  ELSE GroupFromStop(GroupOne(projects, Head(msgs)), Tail(msgs))

RECURSIVE GroupFrom(_, _)
GroupFrom(projects, msgs) ==
  IF msgs = <<>> THEN projects
  ELSE GroupFrom(GroupOne(projects, Head(msgs)), Tail(msgs))

\* Object.values(projects).map(...): one payload per project
Payloads(projects) ==
  [i \in 1..Len(projects) |->
     [MessageGroupId |-> projects[i].contentBusId,
      MessageBody |-> JsonStringify(projects[i])]]

(***************************************************************************)
(* events.js, org/site variant: the messages and the grouping.             *)
(***************************************************************************)
\* a media event of the org/site variant, with the properties given in keys
OrgSiteEvent(keys, n) ==
  [f \in DOMAIN keys \cup {"mediaHash", "timestamp"} |->
     IF f = "mediaHash" THEN 10 + n
     ELSE IF f = "timestamp" THEN 70000 + 1000 * n
     ELSE keys[f]]

\* msg.Body of the messages of the input queue, org/site variant
OrgSiteBody(m) ==
  CASE m = 1 -> JsonStringify(OrgSiteEvent([org |-> "org1", site |-> "site1"], 1))
    [] m = 2 -> SnsWrap(JsonStringify(OrgSiteEvent(
                  [org |-> "org1", site |-> "site1", owner |-> "owner-1", repo |-> "repo-1"], 2)))
    [] m = 3 -> JsonStringify(OrgSiteEvent([owner |-> "owner-1", repo |-> "repo-1"], 3))
    [] m = 4 -> Bogus
    [] m = 5 -> JsonStringify([mediaHash |-> 15, timestamp |-> 75000])
    [] m = 6 -> JsonStringify(OrgSiteEvent([org |-> "org2", site |-> "site2"], 6))
    [] m = 7 -> SnsWrap(Bogus)
    [] OTHER -> JsonStringify(OrgSiteEvent([org |-> "org1"], m))

OrgSiteMessage(m) == [MessageId |-> m, Body |-> OrgSiteBody(m)]

\* a JSON array of strings and a JSON value that is no array
JsonArray(items) == [array |-> TRUE, items |-> items]

JsonNoArray == [array |-> FALSE, items |-> <<>>]

\* env.HLX_MEDIA_LOGGING_ORGS is not set (or the empty string)
NoEnv == [set |-> FALSE, text |-> Bogus]

\* the values of env.HLX_MEDIA_LOGGING_ORGS: not set, 'not json', '{}',
\* '["org2"]', '["org1","owner-1"]'
Configs ==
  { NoEnv,
    [set |-> TRUE, text |-> Bogus],
    [set |-> TRUE, text |-> JsonStringify(JsonNoArray)],
    [set |-> TRUE, text |-> JsonStringify(JsonArray(<< "org2" >>))],
    [set |-> TRUE, text |-> JsonStringify(JsonArray(<< "org1", "owner-1" >>))] }

\* getLoggingOrgs(context): the parsed array, [] if the value is not set, is
\* no JSON or is no array
GetLoggingOrgs(env) ==
  IF ~env.set THEN {}
  ELSE IF ParseThrows(env.text) THEN {}
  ELSE IF JsonParse(env.text).array THEN Range(JsonParse(env.text).items)
  ELSE {}

\* !message[f]: the property is missing or the empty string
Falsy(message, f) == f \notin DOMAIN message \/ message[f] = ""

\* { ...message, org: message.owner, site: message.repo }; a property set to
\* undefined is left out, as JSON.stringify leaves it out
OwnerRepoFallback(message) ==
  LET dom == (DOMAIN message \ {"org", "site"})
               \cup (IF "owner" \in DOMAIN message THEN {"org"} ELSE {})
               \cup (IF "repo" \in DOMAIN message THEN {"site"} ELSE {})
  IN  [f \in dom |-> IF f = "org" THEN message.owner
                     ELSE IF f = "site" THEN message.repo
                     ELSE message[f]]

\* ${x} in a template literal: an undefined value reads "undefined"
TemplateOf(message, f) == IF f \in DOMAIN message THEN message[f] ELSE "undefined"

\* `${org}/${site}`
ProjectKey(message) == [org |-> TemplateOf(message, "org"), site |-> TemplateOf(message, "site")]

\* `${org}/*`
OrgKey(message) == [org |-> TemplateOf(message, "org"), site |-> "*"]

\* addMessage(message, key, projects) of the org/site variant; a key with a
\* slash is no member of Object.prototype
AddMessageOrgSite(message, key, projects) ==
  IF \E i \in 1..Len(projects) : projects[i].key = key
  THEN LET i == CHOOSE i \in 1..Len(projects) : projects[i].key = key
       IN  [projects EXCEPT ![i].updates = Append(@, message)]
  ELSE Append(projects, [key |-> key, updates |-> << message >>])

\* the body of the loop over msgs of the org/site variant
GroupOneOrgSiteNoOrgKey(loggingOrgs, projects, msg) ==
  IF ParseThrows(msg.Body) THEN projects
  ELSE LET body == JsonParse(msg.Body)
       IN  IF IsSns(body) /\ ParseThrows(body.Message) THEN projects
           ELSE LET parsed == IF IsSns(body) THEN JsonParse(body.Message) ELSE body
                    message == IF Falsy(parsed, "org") /\ Falsy(parsed, "site")
                               THEN OwnerRepoFallback(parsed) ELSE parsed
                IN  AddMessageOrgSite(message, ProjectKey(message), projects)

\* the body of the loop over msgs of the org/site variant
GroupOneOrgSite(loggingOrgs, projects, msg) ==
  IF ParseThrows(msg.Body) THEN projects
  ELSE LET body == JsonParse(msg.Body)
       IN  IF IsSns(body) /\ ParseThrows(body.Message) THEN projects
           ELSE LET parsed == IF IsSns(body) THEN JsonParse(body.Message) ELSE body
                    message == IF Falsy(parsed, "org") /\ Falsy(parsed, "site")
                               THEN OwnerRepoFallback(parsed) ELSE parsed
                    added == AddMessageOrgSite(message, ProjectKey(message), projects)
                IN  IF "org" \in DOMAIN message /\ message.org \in loggingOrgs
                    THEN AddMessageOrgSite(message, OrgKey(message), added)
                    ELSE added

RECURSIVE GroupFromOrgSite(_, _, _)
GroupFromOrgSite(loggingOrgs, projects, msgs) ==
  IF msgs = <<>> THEN projects
  ELSE GroupFromOrgSite(loggingOrgs, GroupOneOrgSite(loggingOrgs, projects, Head(msgs)),
                        Tail(msgs))

\* Object.values(projects).map(...) of the org/site variant
PayloadsOrgSite(projects) ==
  [i \in 1..Len(projects) |->
     [MessageGroupId |-> projects[i].key,
      MessageBody |-> JsonStringify(projects[i])]]

(***************************************************************************)
(* State.                                                                  *)
(***************************************************************************)
VARIABLES
  indexObj,   \* blob store: per prefix, the .index object
  logObj,     \* blob store: per prefix and file id, the <id>.gz object
  now,        \* wall clock, in seconds
  failures,   \* number of requests that failed with an error so far
  calls,      \* number of append calls made so far
  ap,         \* per appender: position and locals of MediaLog.append
              \* (contents: the array as it was fetched, before the push)
  reqs,       \* per appender: the blob-store requests of its current call
  pre,        \* per appender: the blob store as it was when the call began
  inQ,        \* input queue: the ids of the messages it holds
  outQ,       \* output FIFO queue: the delivery messages it holds, in order
  outNext,    \* the messageId the output queue gives to the next message
  swapObj,    \* blob store: the swapped-out message bodies, by blob key
  polls,      \* number of invocations of the pipeline so far
  pl,         \* the pipeline invocation: position, locals and its calls
  h,          \* the delivery handler invocation: position and locals
  df,         \* a use of DateFormat: the instant, its text, the text parsed
  rq          \* the entry point: the request and what it was dispatched to

storeVars == << indexObj, logObj, now, failures, calls, ap, reqs, pre >>

\* the store without the count of failed requests
storeRest == << indexObj, logObj, now, calls, ap, reqs, pre >>

queueVars == << inQ, outQ, outNext, swapObj >>

\* what the pipeline and the delivery handler leave alone
sideVars == << df, rq >>

\* what a request of MediaLog.append leaves alone
otherVars == << queueVars, polls, pl, h, df, rq >>

vars == << storeVars, otherVars >>

NoBlob == [exists |-> FALSE, body |-> Bogus]

\* the blob keys the output queue may swap a message body out to
BlobKeys == 1..(MaxPolls * MaxReceive + 3)

NoUrl == [host |-> "", pathname |-> 0]

NoResponse == [status |-> 0, received |-> 0, plural |-> FALSE]

ErrorResponseNone == NoResponse

\* run: catch (e), new Response('', { status: 500, ... })
ErrorResponse == [status |-> 500, received |-> 0, plural |-> FALSE]

IdlePl ==
  [pc |-> "idle", msgs |-> <<>>, payloads |-> <<>>, trace |-> <<>>,
   sent |-> <<>>, deleted |-> <<>>, resp |-> NoResponse, env |-> NoEnv]

NoCleanup == [set |-> FALSE, key |-> 0]

IdleH ==
  [pc |-> "idle", messages |-> <<>>, i |-> 0, body |-> Bogus, url |-> NoUrl,
   depth |-> 0, cleanup |-> NoCleanup, trace |-> <<>>, batchItemFailures |-> <<>>,
   status |-> 0]

\* DateFormat is not in use
IdleDf == [pc |-> "idle", t |-> [sec |-> 0, ms |-> 0], text |-> <<>>,
           back |-> [sec |-> 0, ms |-> 0]]

\* a request without data, records or body
NoRequest ==
  [source |-> "", hasRecords |-> FALSE, records |-> <<>>, method |-> "GET",
   contentType |-> "", json |-> [x \in {} |-> 0]]

\* no request has reached the entry point
IdleRq == [pc |-> "idle", request |-> NoRequest, target |-> "", status |-> 0]

\* nothing polled and nothing delivered yet; msgs are in the input queue
TransportInit(msgs) ==
  /\ inQ = msgs
  /\ outQ = <<>>
  /\ outNext = 1
  /\ swapObj = [k \in BlobKeys |-> NoBlob]
  /\ polls = 0
  /\ pl = IdlePl
  /\ h = IdleH
  /\ df = IdleDf
  /\ rq = IdleRq

NoObject == [exists |-> FALSE, body |-> <<>>, meta |-> [sec |-> 0]]

NoKey == LogKey([org |-> "", site |-> ""], NoId)

NoRet == [kind |-> "none", key |-> NoKey, status |-> 0]

IdleAp ==
  [pc |-> "idle", prefix |-> [org |-> "", site |-> ""], updates |-> <<>>,
   logFiles |-> <<>>, key |-> NoKey, contents |-> <<>>, ret |-> NoRet]

\* the blob store holds no object and no append call has been made
BlobInit ==
  /\ indexObj = [p \in AllPrefixes |-> NoObject]
  /\ logObj = [p \in AllPrefixes |-> [i \in FileIds |-> NoObject]]
  /\ now = 0
  /\ failures = 0
  /\ calls = 0
  /\ ap = [p \in Procs |-> IdleAp]
  /\ reqs = [p \in Procs |-> <<>>]
  /\ pre = [p \in Procs |-> [index |-> indexObj, logs |-> logObj]]

StoreInit == BlobInit /\ TransportInit({})

Req(op, key, status) == [op |-> op, key |-> key, status |-> status]

Throw(a, status) ==
  [a EXCEPT !.pc = "done", !.ret = [kind |-> "throw", key |-> NoKey, status |-> status]]

\* the ids of the file objects and index lines that exist under a prefix
UsedIds(prefix) ==
  { i \in FileIds : logObj[prefix][i].exists } \cup
  (IF indexObj[prefix].exists THEN Range(indexObj[prefix].body) ELSE {})

(***************************************************************************)
(* MediaLog.append and the requests it makes.                              *)
(***************************************************************************)
\* append(updates) is entered; with no updates it returns null at once
AppendCall(p, prefix, updates) ==
  /\ ap[p].pc \in {"idle", "done"}
  /\ calls' = calls + 1
  /\ reqs' = [reqs EXCEPT ![p] = <<>>]
  /\ pre' = [pre EXCEPT ![p] = [index |-> indexObj, logs |-> logObj]]
  /\ ap' = [ap EXCEPT ![p] =
       IF HasUpdates(updates)
       THEN [IdleAp EXCEPT !.pc = "fetchIndex", !.prefix = prefix, !.updates = updates]
       ELSE [IdleAp EXCEPT !.pc = "done", !.prefix = prefix, !.updates = updates,
                           !.ret = [kind |-> "null", key |-> NoKey, status |-> 0]]]
  /\ UNCHANGED << indexObj, logObj, now, failures >>

\* where getOrCreateLogObject goes once it has the list of log files
AfterIndex(a, logFiles) ==
  IF Len(logFiles) > 0
  THEN [a EXCEPT !.pc = "fetchLogFile", !.logFiles = logFiles,
                 !.key = LogKey(a.prefix, logFiles[Len(logFiles)])]
  ELSE [a EXCEPT !.pc = "putIndex", !.logFiles = logFiles]

\* #fetchIndex: GET <prefix>/.index
FetchIndex(p) ==
  /\ ap[p].pc = "fetchIndex"
  /\ LET a == ap[p]
         obj == indexObj[a.prefix]
         answers == (IF obj.exists THEN {200} ELSE {404})
                    \cup (IF failures < MaxFailures THEN ErrorStatuses ELSE {})
     IN \E status \in answers :
          /\ reqs' = [reqs EXCEPT ![p] = Append(@, Req("GET", IndexKey(a.prefix), status))]
          /\ failures' = IF status \in ErrorStatuses THEN failures + 1 ELSE failures
          /\ ap' = [ap EXCEPT ![p] =
               IF status = 200 THEN AfterIndex(a, IndexSplit(obj.body))
               ELSE IF IsNotFound(status) THEN AfterIndex(a, <<>>)
               ELSE Throw(a, status)]
  /\ UNCHANGED << indexObj, logObj, now, calls, pre >>

\* #fetchLogFile: GET <prefix>/<last id>.gz
FetchLogFile(p) ==
  /\ ap[p].pc = "fetchLogFile"
  /\ LET a == ap[p]
         obj == logObj[a.prefix][a.key.id]
         answers == (IF a.key.id \in FileIds /\ obj.exists THEN {200} ELSE {404})
                    \cup (IF failures < MaxFailures THEN ErrorStatuses ELSE {})
     IN \E status \in answers :
          /\ reqs' = [reqs EXCEPT ![p] = Append(@, Req("GET", WithGz(a.key), status))]
          /\ failures' = IF status \in ErrorStatuses THEN failures + 1 ELSE failures
          /\ ap' = [ap EXCEPT ![p] =
               IF status = 200
               THEN IF Eligible(ContentLength(obj.body))
                    THEN [a EXCEPT !.pc = "storeLogFile",
                                   !.contents = JsonParse(Gunzip(obj.body))]
                    ELSE [a EXCEPT !.pc = "putIndex"]
               ELSE IF IsNotFound(status) THEN [a EXCEPT !.pc = "putIndex"]
               ELSE Throw(a, status)]
  /\ UNCHANGED << indexObj, logObj, now, calls, pre >>

\* getOrCreateLogObject: generateID, push, PUT <prefix>/.index
PutIndex(p) ==
  /\ ap[p].pc = "putIndex"
  /\ LET a == ap[p]
         answers == {200} \cup (IF failures < MaxFailures THEN ErrorStatuses ELSE {})
     IN \E t \in now..MaxTime, r \in 0..MaxRnd, status \in answers :
          LET id == [t |-> t, r |-> r]
              logFiles == PushId(a.logFiles, id)
          IN /\ id \notin UsedIds(a.prefix)
             /\ now' = t
             /\ reqs' = [reqs EXCEPT ![p] = Append(@, Req("PUT", IndexKey(a.prefix), status))]
             /\ failures' = IF status \in ErrorStatuses THEN failures + 1 ELSE failures
             /\ indexObj' =
                  IF status = 200
                  THEN [indexObj EXCEPT ![a.prefix] =
                          [exists |-> TRUE, body |-> IndexBody(logFiles), meta |-> [sec |-> 0]]]
                  ELSE indexObj
             /\ ap' = [ap EXCEPT ![p] =
                  IF status = 200
                  THEN [a EXCEPT !.pc = "storeLogFile", !.logFiles = logFiles,
                                 !.key = LogKey(a.prefix, logFiles[Len(logFiles)]),
                                 !.contents = <<>>]
                  ELSE Throw([a EXCEPT !.logFiles = logFiles], status)]
  /\ UNCHANGED << logObj, calls, pre >>

\* append: push the updates, #storeLogFile (PUT <key>.gz), return `${key}.gz`
StoreLogFile(p) ==
  /\ ap[p].pc = "storeLogFile"
  /\ LET a == ap[p]
         answers == {200} \cup (IF failures < MaxFailures THEN ErrorStatuses ELSE {})
     IN IF Len(a.updates) = 0
        THEN \* updates[updates.length - 1].timestamp raises a TypeError
             /\ ap' = [ap EXCEPT ![p] = Throw(a, 0)]
             /\ UNCHANGED << logObj, reqs, failures >>
        ELSE \E status \in answers :
          LET lastEventTime == LastEventTime(a.updates)
              contents == PushAll(a.contents, a.updates)
          IN /\ reqs' = [reqs EXCEPT ![p] = Append(@, Req("PUT", WithGz(a.key), status))]
             /\ failures' = IF status \in ErrorStatuses THEN failures + 1 ELSE failures
             /\ logObj' =
                  IF status = 200
                  THEN [logObj EXCEPT ![a.prefix][a.key.id] =
                          [exists |-> TRUE, body |-> Gzip(JsonStringify(contents)),
                           meta |-> DateFormatFormat(lastEventTime)]]
                  ELSE logObj
             /\ ap' = [ap EXCEPT ![p] =
                  IF status = 200
                  THEN [a EXCEPT !.pc = "done",
                                 !.ret = [kind |-> "path", key |-> AppendResult(a.key),
                                          status |-> 0]]
                  ELSE Throw(a, status)]
  /\ UNCHANGED << indexObj, now, calls, pre >>

(***************************************************************************)
(* SpecStore: one caller, its append calls one after the other.            *)
(***************************************************************************)
StoreNext ==
  \/ \E prefix \in Prefixes, updates \in Batches :
       calls < MaxAppends /\ AppendCall(1, prefix, updates) /\ UNCHANGED otherVars
  \/ FetchIndex(1) /\ UNCHANGED otherVars
  \/ FetchLogFile(1) /\ UNCHANGED otherVars
  \/ PutIndex(1) /\ UNCHANGED otherVars
  \/ StoreLogFile(1) /\ UNCHANGED otherVars

SpecStore == StoreInit /\ [][StoreNext]_vars

(***************************************************************************)
(* SpecConc: two callers whose appends on one key interleave at their      *)
(* blob-store requests.                                                    *)
(***************************************************************************)
ConcPrefix == [org |-> "org", site |-> "site"]

\* the store as one earlier append of `first` at second 0 left it (or pristine)
ConcInit ==
  \E first \in Batches :
    LET id == [t |-> 0, r |-> 0]
    IN  /\ indexObj = [p \in AllPrefixes |->
              IF p = ConcPrefix /\ HasUpdates(first)
              THEN [exists |-> TRUE, body |-> IndexBody(PushId(<<>>, id)),
                    meta |-> [sec |-> 0]]
              ELSE NoObject]
        /\ logObj = [p \in AllPrefixes |-> [i \in FileIds |->
              IF p = ConcPrefix /\ i = id /\ HasUpdates(first)
              THEN [exists |-> TRUE, body |-> Gzip(JsonStringify(PushAll(<<>>, first))),
                    meta |-> DateFormatFormat(first[Len(first)].timestamp)]
              ELSE NoObject]]
        /\ now = 0
        /\ failures = 0
        /\ calls = 0
        /\ ap = [p \in Procs |-> IdleAp]
        /\ reqs = [p \in Procs |-> <<>>]
        /\ pre = [p \in Procs |-> [index |-> indexObj, logs |-> logObj]]
        /\ TransportInit({})

\* each caller makes one call
ConcNext ==
  \/ \E p \in Procs, updates \in Batches :
       /\ ap[p].pc = "idle" /\ calls < MaxAppends
       /\ AppendCall(p, ConcPrefix, updates) /\ UNCHANGED otherVars
  \/ \E p \in Procs : FetchIndex(p) /\ UNCHANGED otherVars
  \/ \E p \in Procs : FetchLogFile(p) /\ UNCHANGED otherVars
  \/ \E p \in Procs : PutIndex(p) /\ UNCHANGED otherVars
  \/ \E p \in Procs : StoreLogFile(p) /\ UNCHANGED otherVars

SpecConc == ConcInit /\ [][ConcNext]_vars

(***************************************************************************)
(* SpecKeys: two callers, each with one append call on a key of its own,   *)
(* interleaved at their blob-store requests.                               *)
(***************************************************************************)
KeyOfShared(p) == ConcPrefix

\* the (org, site) options of the MediaLog of each caller
KeyOf(p) == IF p = 1 THEN [org |-> "org", site |-> "site"] ELSE [org |-> "org", site |-> "*"]

\* the store as one earlier append of `first` to each of the two keys at
\* second 0 left it (or pristine)
KeysInit ==
  \E first \in Batches :
    LET id == [t |-> 0, r |-> 0]
    IN  /\ indexObj = [p \in AllPrefixes |->
              IF p \in Prefixes /\ HasUpdates(first)
              THEN [exists |-> TRUE, body |-> IndexBody(PushId(<<>>, id)),
                    meta |-> [sec |-> 0]]
              ELSE NoObject]
        /\ logObj = [p \in AllPrefixes |-> [i \in FileIds |->
              IF p \in Prefixes /\ i = id /\ HasUpdates(first)
              THEN [exists |-> TRUE, body |-> Gzip(JsonStringify(PushAll(<<>>, first))),
                    meta |-> DateFormatFormat(first[Len(first)].timestamp)]
              ELSE NoObject]]
        /\ now = 0
        /\ failures = 0
        /\ calls = 0
        /\ ap = [p \in Procs |-> IdleAp]
        /\ reqs = [p \in Procs |-> <<>>]
        /\ pre = [p \in Procs |-> [index |-> indexObj, logs |-> logObj]]
        /\ TransportInit({})

\* each caller makes one call, on its key
KeysNext ==
  \/ \E p \in Procs, updates \in Batches :
       /\ ap[p].pc = "idle" /\ calls < MaxAppends
       /\ AppendCall(p, KeyOf(p), updates) /\ UNCHANGED otherVars
  \/ \E p \in Procs : FetchIndex(p) /\ UNCHANGED otherVars
  \/ \E p \in Procs : FetchLogFile(p) /\ UNCHANGED otherVars
  \/ \E p \in Procs : PutIndex(p) /\ UNCHANGED otherVars
  \/ \E p \in Procs : StoreLogFile(p) /\ UNCHANGED otherVars

SpecKeys == KeysInit /\ [][KeysNext]_vars

(***************************************************************************)
(* events.js: one invocation of the pipeline, at its queue calls.          *)
(***************************************************************************)
\* the sequences without repetition of at most n elements of S
DistinctSeqs(S, n) ==
  { q \in SeqsUpTo(S, n) : \A i, j \in 1..Len(q) : i # j => q[i] # q[j] }

Called(op, ok) == [op |-> op, ok |-> ok]

PipeRaiseGoOn(op) ==
  [pl EXCEPT !.pc = IF op = "send" THEN "delete" ELSE "done",
             !.trace = Append(@, Called(op, FALSE)),
             !.resp = ErrorResponse]

\* a queue call raised: doRun raises and run answers with status 500
PipeRaise(op) ==
  [pl EXCEPT !.pc = "done", !.trace = Append(@, Called(op, FALSE)),
             !.resp = ErrorResponse]

\* new Response(`Received ${msgs.length} message${...} from queue.`)
Summary(msgs) == [status |-> 200, received |-> Len(msgs), plural |-> Len(msgs) # 1]

\* the output queue swaps a body out that exceeds its size limit: the
\* bodies holding event 2
Oversized(text) ==
  \E i \in 1..Len(JsonParse(text).updates) : JsonParse(text).updates[i].mediaHash = 2

SwapUrl(k) == [host |-> "helix-content-bus", pathname |-> k]

\* the delivery message the output queue makes of a payload
Delivery(payload, id) ==
  [messageId |-> id,
   body |-> IF Oversized(payload.MessageBody)
            THEN JsonStringify([contentBusId |-> payload.MessageGroupId,
                                swapS3Url |-> SwapUrl(id)])
            ELSE payload.MessageBody]

\* run(): client.receive(30, 50, 1000), then the grouping of what it got
PipeReceiveFrom(maxPolls, messages) ==
  /\ pl.pc \in {"idle", "done"}
  /\ polls < maxPolls
  /\ polls' = polls + 1
  /\ \/ /\ failures < MaxFailures
        /\ failures' = failures + 1
        /\ pl' = [IdlePl EXCEPT !.pc = "done", !.trace = << Called("receive", FALSE) >>,
                                !.resp = ErrorResponse]
     \/ /\ \E ids \in DistinctSeqs(inQ, MaxReceive) :
             LET msgs == [i \in 1..Len(ids) |-> messages[ids[i]]]
             IN  pl' = [IdlePl EXCEPT !.pc = "send", !.msgs = msgs,
                                      !.payloads = Payloads(GroupFrom(<<>>, msgs)),
                                      !.trace = << Called("receive", TRUE) >>]
        /\ UNCHANGED failures
  /\ UNCHANGED << storeRest, queueVars, h, sideVars >>

PipeReceiveWithin(maxPolls) == PipeReceiveFrom(maxPolls, [m \in inQ |-> SqsMessage(m)])

PipeReceive == PipeReceiveWithin(MaxPolls)

\* client.send(payloads)
PipeSend ==
  /\ pl.pc = "send"
  /\ \/ /\ failures < MaxFailures
        /\ failures' = failures + 1
        /\ pl' = [PipeRaise("send") EXCEPT !.sent = Append(@, pl.payloads)]
        /\ UNCHANGED << outQ, outNext, swapObj >>
     \/ /\ LET n == Len(pl.payloads)
               new == [i \in 1..n |-> Delivery(pl.payloads[i], outNext + i - 1)]
           IN  /\ outQ' = outQ \o new
               /\ outNext' = outNext + n
               /\ swapObj' = [k \in BlobKeys |->
                     IF \E i \in 1..n : k = outNext + i - 1 /\ Oversized(pl.payloads[i].MessageBody)
                     THEN [exists |-> TRUE, body |-> pl.payloads[k - outNext + 1].MessageBody]
                     ELSE swapObj[k]]
        /\ pl' = [pl EXCEPT !.pc = "delete", !.trace = Append(@, Called("send", TRUE)),
                            !.sent = Append(@, pl.payloads)]
        /\ UNCHANGED failures
  /\ UNCHANGED << storeRest, inQ, polls, h, sideVars >>

DeleteListParsed(msgs) ==
  LET Ok(m) == ~ParseThrows(m.Body) IN SelectSeq(msgs, Ok)

\* the argument of client.delete: all the received messages
DeleteList(msgs) == msgs

\* client.delete(msgs), then the summary
PipeDelete ==
  /\ pl.pc = "delete"
  /\ \/ /\ failures < MaxFailures
        /\ failures' = failures + 1
        /\ pl' = [PipeRaise("delete") EXCEPT !.deleted = Append(@, DeleteList(pl.msgs))]
        /\ UNCHANGED inQ
     \/ /\ inQ' = inQ \ { DeleteList(pl.msgs)[i].MessageId :
                            i \in 1..Len(DeleteList(pl.msgs)) }
        /\ pl' = [pl EXCEPT !.pc = "done", !.trace = Append(@, Called("delete", TRUE)),
                            !.deleted = Append(@, DeleteList(pl.msgs)),
                            !.resp = Summary(pl.msgs)]
        /\ UNCHANGED failures
  /\ UNCHANGED << storeRest, outQ, outNext, swapObj, polls, h, sideVars >>

(***************************************************************************)
(* SpecPipe: invocations of the pipeline on an input queue holding the     *)
(* messages of MsgIds.                                                     *)
(***************************************************************************)
PipeInit == BlobInit /\ TransportInit(MsgIds)

PipeNext ==
  \/ PipeReceive
  \/ PipeSend
  \/ PipeDelete

SpecPipe == PipeInit /\ [][PipeNext]_vars

(***************************************************************************)
(* SpecWrap: invocations of the pipeline on an input queue that holds each *)
(* payload once as the body of a message and once in a notification        *)
(* wrapper.                                                                *)
(***************************************************************************)
\* the payloads: events of two keys, an event without key, and a payload
\* that has the shape of a notification itself
WrapPayload(n) ==
  CASE n = 1 -> JsonStringify(Event("k1", 1))
    [] n = 2 -> JsonStringify(Event("k2", 3))
    [] n = 3 -> JsonStringify([mediaHash |-> 5, timestamp |-> 65000])
    [] OTHER -> SnsWrap(JsonStringify(Event("k1", 4)))

NumPayloads == 4

\* the message m <= NumPayloads has the payload m as its body, the message
\* NumPayloads + m has it in a notification wrapper
WrapMessage(m) ==
  [MessageId |-> m,
   Body |-> IF m <= NumPayloads THEN WrapPayload(m) ELSE SnsWrap(WrapPayload(m - NumPayloads))]

WrapInit == BlobInit /\ TransportInit(1..(2 * NumPayloads))

PipeReceiveWrap == PipeReceiveFrom(MaxPolls, [m \in inQ |-> WrapMessage(m)])

WrapNext ==
  \/ PipeReceiveWrap
  \/ PipeSend
  \/ PipeDelete

SpecWrap == WrapInit /\ [][WrapNext]_vars

(***************************************************************************)
(* SpecPipeOrgSite: invocations of the org/site variant of the pipeline.   *)
(***************************************************************************)
\* run() of the org/site variant: client.receive, then the grouping
PipeReceiveOrgSite ==
  /\ pl.pc \in {"idle", "done"}
  /\ polls < MaxPolls
  /\ polls' = polls + 1
  /\ \/ /\ failures < MaxFailures
        /\ failures' = failures + 1
        /\ pl' = [IdlePl EXCEPT !.pc = "done", !.env = pl.env,
                                !.trace = << Called("receive", FALSE) >>,
                                !.resp = ErrorResponse]
     \/ /\ \E ids \in DistinctSeqs(inQ, MaxReceive) :
             LET msgs == [i \in 1..Len(ids) |-> OrgSiteMessage(ids[i])]
             IN  pl' = [IdlePl EXCEPT !.pc = "send", !.msgs = msgs, !.env = pl.env,
                                      !.payloads = PayloadsOrgSite(
                                        GroupFromOrgSite(GetLoggingOrgs(pl.env), <<>>, msgs)),
                                      !.trace = << Called("receive", TRUE) >>]
        /\ UNCHANGED failures
  /\ UNCHANGED << storeRest, queueVars, h, sideVars >>

PipeNextOrgSite ==
  \/ PipeReceiveOrgSite
  \/ PipeSend
  \/ PipeDelete

\* the messages of the input queue of the org/site variant: with org and
\* site, in a notification wrapper, with owner and repo only, with none of
\* them, of a second org, and a wrapper around a text that is no JSON
OrgSiteIds == { 1, 2, 3, 5, 6, 7 }

\* the messages are in the input queue; the environment holds one of the
\* values of HLX_MEDIA_LOGGING_ORGS
PipeInitOrgSite ==
  /\ BlobInit
  /\ inQ = OrgSiteIds
  /\ outQ = <<>>
  /\ outNext = 1
  /\ swapObj = [k \in BlobKeys |-> NoBlob]
  /\ polls = 0
  /\ pl \in { [IdlePl EXCEPT !.env = env] : env \in Configs }
  /\ h = IdleH
  /\ df = IdleDf
  /\ rq = IdleRq

SpecPipeOrgSite == PipeInitOrgSite /\ [][PipeNextOrgSite]_vars

(***************************************************************************)
(* trigger.js: one invocation of the delivery handler, at its blob-store   *)
(* requests.                                                               *)
(***************************************************************************)
\* s3InputFromURL(s3Url)
S3InputFromURL(url) == [Bucket |-> url.host, Key |-> url.pathname]

\* if (swapS3Url)
HasSwap(body) == "swapS3Url" \in DOMAIN body

\* else if (updates): an array, also an empty one, is truthy
HasUpdatesField(body) == "updates" \in DOMAIN body

\* JSON.stringify({ contentBusId }): an undefined contentBusId is left out
KeyOnly(body) == JsonStringify([f \in DOMAIN body \cap {"contentBusId"} |-> body[f]])

FailureOf(message) == [itemIdentifier |-> message.messageId]

Did(op, i) == [op |-> op, message |-> i]

NextMessageAbort(raised) ==
  LET failed == IF raised THEN Append(h.batchItemFailures, FailureOf(h.messages[h.i]))
                ELSE h.batchItemFailures
  IN  IF h.i < Len(h.messages) /\ ~raised
      THEN [h EXCEPT !.pc = "process", !.i = h.i + 1, !.body = h.messages[h.i + 1].body,
                     !.depth = 0, !.cleanup = NoCleanup, !.batchItemFailures = failed,
                     !.trace = Append(@, Did("start", h.i + 1))]
      ELSE [h EXCEPT !.pc = "return", !.batchItemFailures = failed]

\* the end of the loop body of doRun for the message at h.i: the catch block
\* if it raised, then the next message or the return
NextMessage(raised) ==
  LET failed == IF raised THEN Append(h.batchItemFailures, FailureOf(h.messages[h.i]))
                ELSE h.batchItemFailures
  IN  IF h.i < Len(h.messages)
      THEN [h EXCEPT !.pc = "process", !.i = h.i + 1, !.body = h.messages[h.i + 1].body,
                     !.depth = 0, !.cleanup = NoCleanup, !.batchItemFailures = failed,
                     !.trace = Append(@, Did("start", h.i + 1))]
      ELSE [h EXCEPT !.pc = "return", !.batchItemFailures = failed]

\* the message at h.i did op as its last step, raising or not
Finish(op, raised) ==
  LET done == Append(h.trace, Did(op, h.i))
      next == NextMessage(raised)
  IN  [next EXCEPT !.trace = IF next.pc = "process"
                              THEN Append(done, Did("start", h.i + 1)) ELSE done]

\* an await of the loop body raised: the catch block of doRun
Raise(op) == Finish(op, TRUE)

NoUpdatesRaise == Raise("warn raised")

\* processMessage: else { log.warn(...) }
NoUpdates == [h EXCEPT !.pc = "cleanup", !.trace = Append(@, Did("warn", h.i))]

FetchFailedRaise == Raise("get raised")

\* deserialize: catch (e), return { body: JSON.stringify({ contentBusId }) }
FetchFailed ==
  [h EXCEPT !.pc = "process", !.body = KeyOnly(JsonParse(h.body)),
            !.depth = h.depth + 1, !.trace = Append(@, Did("get failed", h.i))]

\* the transport invokes run(context, messages) with the first messages of
\* the output queue
HandlerInvoke ==
  /\ h.pc \in {"idle", "done"}
  /\ \E n \in 1..MaxBatch :
       /\ n <= Len(outQ)
       /\ h' = [IdleH EXCEPT !.pc = "process", !.messages = SubSeq(outQ, 1, n),
                             !.i = 1, !.body = outQ[1].body,
                             !.trace = << Did("start", 1) >>]
  /\ UNCHANGED << storeVars, queueVars, polls, pl, sideVars >>

\* processMessage(context, message) up to its first await
ProcessMessage ==
  /\ h.pc = "process"
  /\ IF ParseThrows(h.body)
     THEN h' = Raise("parse raised") /\ UNCHANGED storeVars
     ELSE LET body == JsonParse(h.body)
          IN  IF HasSwap(body)
              THEN /\ h' = [h EXCEPT !.pc = "deserialize", !.url = body.swapS3Url]
                   /\ UNCHANGED storeVars
              ELSE IF HasUpdatesField(body)
              THEN /\ AppendCall(1, ContentBusPrefix(body.contentBusId), body.updates)
                   /\ h' = [h EXCEPT !.pc = "append", !.trace = Append(@, Did("append", h.i))]
              ELSE /\ h' = NoUpdates
                   /\ UNCHANGED storeVars
  /\ UNCHANGED << queueVars, polls, pl, sideVars >>

\* deserialize(context, contentBusId, s3Url, message): the GetObject request;
\* message is the delivery message only for its own swap pointer
Deserialize ==
  /\ h.pc = "deserialize"
  /\ h.depth < MaxDepth
  /\ LET input == S3InputFromURL(h.url)
         blob == swapObj[input.Key]
     IN  \/ /\ blob.exists
            /\ h' = [h EXCEPT !.pc = "process", !.body = blob.body, !.depth = h.depth + 1,
                              !.cleanup = IF h.depth = 0
                                          THEN [set |-> TRUE, key |-> input.Key] ELSE @,
                              !.trace = Append(@, Did("get", h.i))]
            /\ UNCHANGED failures
         \/ /\ ~blob.exists \/ failures < MaxFailures
            /\ failures' = IF blob.exists THEN failures + 1 ELSE failures
            /\ h' = FetchFailed
  /\ UNCHANGED << storeRest, queueVars, polls, pl, sideVars >>

AppendReturnCleanup ==
  /\ h.pc = "append"
  /\ ap[1].pc = "done"
  /\ h' = [h EXCEPT !.pc = "cleanup",
                    !.trace = Append(@, Did(IF ap[1].ret.kind = "throw" THEN "append raised"
                                            ELSE "appended", h.i))]
  /\ UNCHANGED << storeVars, queueVars, polls, pl, sideVars >>

\* processUpdates: mediaLog.append(updates) has returned or raised
AppendReturn ==
  /\ h.pc = "append"
  /\ ap[1].pc = "done"
  /\ h' = IF ap[1].ret.kind = "throw" THEN Raise("append raised")
          ELSE [h EXCEPT !.pc = "cleanup", !.trace = Append(@, Did("appended", h.i))]
  /\ UNCHANGED << storeVars, queueVars, polls, pl, sideVars >>

\* if (message.cleanup) await message.cleanup(): the DeleteObject request
Cleanup ==
  /\ h.pc = "cleanup"
  /\ IF ~h.cleanup.set
     THEN h' = NextMessage(FALSE) /\ UNCHANGED << failures, swapObj >>
     ELSE \/ /\ failures < MaxFailures
             /\ failures' = failures + 1
             /\ h' = Raise("delete raised")
             /\ UNCHANGED swapObj
          \/ /\ swapObj' = [swapObj EXCEPT ![h.cleanup.key] = NoBlob]
             /\ h' = Finish("delete", FALSE)
             /\ UNCHANGED failures
  /\ UNCHANGED << storeRest, inQ, outQ, outNext, polls, pl, sideVars >>

\* run returns { batchItemFailures }: the transport removes the messages of
\* the batch that are not listed and delivers the listed ones again
HandlerReturn ==
  /\ h.pc = "return"
  /\ LET batch == { h.messages[i].messageId : i \in 1..Len(h.messages) }
         failed == { h.batchItemFailures[i].itemIdentifier :
                       i \in 1..Len(h.batchItemFailures) }
         Stays(m) == m.messageId \notin batch \/ m.messageId \in failed
     IN  outQ' = SelectSeq(outQ, Stays)
  /\ h' = [h EXCEPT !.pc = "done", !.status = 200]
  /\ UNCHANGED << storeVars, inQ, outNext, swapObj, polls, pl, sideVars >>

(***************************************************************************)
(* SpecHandler: invocations of the delivery handler on an output queue     *)
(* holding delivery messages of every shape.                               *)
(***************************************************************************)
DeliveryIds == 1..8

\* the body of the delivery messages, by messageId
DeliveryBody(d) ==
  CASE d = 1 -> JsonStringify([contentBusId |-> "k1", updates |-> << RestOf(Event("k1", 1)) >>])
    [] d = 2 -> JsonStringify([contentBusId |-> "k1", swapS3Url |-> SwapUrl(1)])
    [] d = 3 -> JsonStringify([contentBusId |-> "k2", swapS3Url |-> SwapUrl(2)])
    [] d = 4 -> Bogus
    [] d = 5 -> JsonStringify([contentBusId |-> "k1"])
    [] d = 6 -> JsonStringify([contentBusId |-> "k2", updates |-> <<>>])
    [] d = 7 -> JsonStringify([contentBusId |-> "k2", swapS3Url |-> SwapUrl(3)])
    [] OTHER -> JsonStringify([contentBusId |-> "k2", swapS3Url |-> SwapUrl(4)])

DeliveryMessage(d) == [messageId |-> d, body |-> DeliveryBody(d)]

\* the swapped-out bodies in the blob store: blob 1 holds a message with
\* records, blob 2 does not exist, blob 3 holds no JSON, blob 4 holds a
\* message that is swapped out itself, to blob 5
InitialBlobs ==
  [k \in BlobKeys |->
     CASE k = 1 -> [exists |-> TRUE,
                    body |-> JsonStringify([contentBusId |-> "k1",
                                            updates |-> << RestOf(Event("k1", 2)),
                                                           RestOf(Event("k1", 3)) >>])]
       [] k = 3 -> [exists |-> TRUE, body |-> Bogus]
       [] k = 4 -> [exists |-> TRUE,
                    body |-> JsonStringify([contentBusId |-> "k2", swapS3Url |-> SwapUrl(5)])]
       [] k = 5 -> [exists |-> TRUE,
                    body |-> JsonStringify([contentBusId |-> "k2",
                                            updates |-> << RestOf(Event("k2", 8)) >>])]
       [] OTHER -> NoBlob]

\* the output queue holds one delivery message or two different ones
DeliveryLists ==
  { << DeliveryMessage(a) >> : a \in DeliveryIds } \cup
  { << DeliveryMessage(p[1]), DeliveryMessage(p[2]) >> :
      p \in { q \in DeliveryIds \X DeliveryIds : q[1] # q[2] } }

HandlerInit ==
  /\ BlobInit
  /\ inQ = {}
  /\ outQ \in DeliveryLists
  /\ outNext = 9
  /\ swapObj = InitialBlobs
  /\ polls = 0
  /\ pl = IdlePl
  /\ h = IdleH
  /\ df = IdleDf
  /\ rq = IdleRq

HandlerNext ==
  \/ HandlerInvoke
  \/ ProcessMessage
  \/ Deserialize
  \/ FetchIndex(1) /\ UNCHANGED otherVars
  \/ FetchLogFile(1) /\ UNCHANGED otherVars
  \/ PutIndex(1) /\ UNCHANGED otherVars
  \/ StoreLogFile(1) /\ UNCHANGED otherVars
  \/ AppendReturn
  \/ Cleanup
  \/ HandlerReturn

SpecHandler == HandlerInit /\ [][HandlerNext]_vars

(***************************************************************************)
(* SpecSwapLoop: the handler on a blob store in which the blob of message  *)
(* 3 may hold the body of message 3, a swap pointer to that same blob.     *)
(* The steps of an invocation are taken as long as one is possible.        *)
(***************************************************************************)
\* blob 2 holds a message whose swap pointer names blob 2
LoopBlobs ==
  [InitialBlobs EXCEPT ![2] = [exists |-> TRUE, body |-> DeliveryBody(3)]]

\* deserialize called at a depth of the recursion that the trace no longer
\* counts: the GetObject request and what processMessage is called with
DeserializeDeep ==
  /\ h.pc = "deserialize"
  /\ h.depth >= MaxDepth
  /\ LET input == S3InputFromURL(h.url)
         blob == swapObj[input.Key]
     IN  \/ /\ blob.exists
            /\ h' = [h EXCEPT !.pc = "process", !.body = blob.body]
            /\ UNCHANGED failures
         \/ /\ ~blob.exists \/ failures < MaxFailures
            /\ failures' = IF blob.exists THEN failures + 1 ELSE failures
            /\ h' = [h EXCEPT !.pc = "process", !.body = KeyOnly(JsonParse(h.body))]
  /\ UNCHANGED << storeRest, queueVars, polls, pl, sideVars >>

SwapLoopInit ==
  /\ BlobInit
  /\ inQ = {}
  /\ outQ \in DeliveryLists
  /\ outNext = 9
  /\ swapObj \in { InitialBlobs, LoopBlobs }
  /\ polls = 0
  /\ pl = IdlePl
  /\ h = IdleH
  /\ df = IdleDf
  /\ rq = IdleRq

\* the steps of run(context, messages) once it is invoked
HandlerSteps ==
  \/ ProcessMessage
  \/ Deserialize
  \/ DeserializeDeep
  \/ FetchIndex(1) /\ UNCHANGED otherVars
  \/ FetchLogFile(1) /\ UNCHANGED otherVars
  \/ PutIndex(1) /\ UNCHANGED otherVars
  \/ StoreLogFile(1) /\ UNCHANGED otherVars
  \/ AppendReturn
  \/ Cleanup
  \/ HandlerReturn

SwapLoopNext ==
  \/ HandlerInvoke
  \/ HandlerSteps

SpecSwapLoop == SwapLoopInit /\ [][SwapLoopNext]_vars /\ WF_vars(HandlerSteps)

(***************************************************************************)
(* Spec: the pipeline, the output queue, the delivery handler and the      *)
(* store together.                                                         *)
(***************************************************************************)
\* the messages of the input queue: events of the keys k1 and k2 (event 2 in
\* a notification wrapper) and an event without key
Inputs == { 1, 2, 3, 5 }

Init == BlobInit /\ TransportInit(Inputs)

Next ==
  \/ PipeReceive
  \/ PipeSend
  \/ PipeDelete
  \/ HandlerInvoke
  \/ ProcessMessage
  \/ Deserialize
  \/ FetchIndex(1) /\ UNCHANGED otherVars
  \/ FetchLogFile(1) /\ UNCHANGED otherVars
  \/ PutIndex(1) /\ UNCHANGED otherVars
  \/ StoreLogFile(1) /\ UNCHANGED otherVars
  \/ AppendReturn
  \/ Cleanup
  \/ HandlerReturn

Spec == Init /\ [][Next]_vars

(***************************************************************************)
(* SpecRedeliver: the whole service, with one more invocation of the       *)
(* pipeline, which receives what an earlier invocation did not delete.     *)
(***************************************************************************)
\* the message of the input queue: an event of the key k1 in a notification
\* wrapper, whose batch the output queue swaps out
Redelivered == { 2 }

RedeliverInit == BlobInit /\ TransportInit(Redelivered)

\* run() of a later invocation: client.receive returns messages that are in
\* the input queue, received before or not
PipeReceiveAgain == PipeReceiveWithin(MaxPolls + 1)

RedeliverNext ==
  \/ PipeReceiveAgain
  \/ PipeSend
  \/ PipeDelete
  \/ HandlerInvoke
  \/ ProcessMessage
  \/ Deserialize
  \/ FetchIndex(1) /\ UNCHANGED otherVars
  \/ FetchLogFile(1) /\ UNCHANGED otherVars
  \/ PutIndex(1) /\ UNCHANGED otherVars
  \/ StoreLogFile(1) /\ UNCHANGED otherVars
  \/ AppendReturn
  \/ Cleanup
  \/ HandlerReturn

SpecRedeliver == RedeliverInit /\ [][RedeliverNext]_vars

(***************************************************************************)
(* What the claims about the store speak of.                               *)
(***************************************************************************)
\* the Index of a prefix as a list: an absent object is the empty Index
IndexList(obj) == IF obj.exists THEN IndexSplit(obj.body) ELSE <<>>

\* the JSON array a log file object holds
FileArray(obj) == JsonParse(Gunzip(obj.body))

Returned(p) == ap[p].pc = "done"

Succeeded(p) == ap[p].pc = "done" /\ ap[p].ret.kind = "path"

EndsWith(arr, s) ==
  /\ Len(arr) >= Len(s)
  /\ SubSeq(arr, Len(arr) - Len(s) + 1, Len(arr)) = s

GrownByOne(old, new) ==
  /\ Len(new) = Len(old) + 1
  /\ SubSeq(new, 1, Len(old)) = old

IndexPuts(p) ==
  { i \in 1..Len(reqs[p]) : reqs[p][i].op = "PUT" /\ reqs[p][i].key = IndexKey(ap[p].prefix) }

\* the last entry of the Index a call found names an existing file
HadCurrentFile(p) ==
  LET old == IndexList(pre[p].index[ap[p].prefix])
  IN  /\ Len(old) > 0
      /\ old[Len(old)] \in FileIds
      /\ pre[p].logs[ap[p].prefix][old[Len(old)]].exists

\* C2: after a successful non-empty append (no other writer) the file named
\* by the last Index entry exists, its array ends with exactly the appended
\* records in input order, and the returned value is that file's path
\* <prefix>/<fileId>.gz.
C2_AppendDurable ==
  \A p \in Procs :
    Succeeded(p) =>
      LET a == ap[p]
          idx == IndexList(indexObj[a.prefix])
      IN  /\ Len(idx) > 0
          /\ idx[Len(idx)] \in FileIds
          /\ LET obj == logObj[a.prefix][idx[Len(idx)]]
             IN  /\ obj.exists
                 /\ EndsWith(FileArray(obj), a.updates)
                 /\ a.ret.key = WithGz(LogKey(a.prefix, idx[Len(idx)]))

C2_Witness ==
  \E p \in Procs :
    /\ Succeeded(p)
    /\ Len(ap[p].updates) = 2
    /\ Len(FileArray(logObj[ap[p].prefix][ap[p].ret.key.id])) > 2

\* C3: with a current file of stored size >= 524288 a successful append
\* writes the old Index plus one new id, writes only its records into the new
\* file and leaves the old file as it was; below 524288 it rewrites the same
\* file and makes no Index write.
C3_RotationBoundary ==
  \A p \in Procs :
    (Succeeded(p) /\ HadCurrentFile(p)) =>
      LET a == ap[p]
          old == IndexList(pre[p].index[a.prefix])
          cur == old[Len(old)]
          was == pre[p].logs[a.prefix][cur]
      IN  IF ContentLength(was.body) >= 524288
          THEN /\ \E id \in FileIds \ Range(old) :
                    /\ IndexList(indexObj[a.prefix]) = Append(old, id)
                    /\ FileArray(logObj[a.prefix][id]) = a.updates
                    /\ a.ret.key = WithGz(LogKey(a.prefix, id))
               /\ logObj[a.prefix][cur] = was
               /\ Cardinality(IndexPuts(p)) = 1
          ELSE /\ a.ret.key = WithGz(LogKey(a.prefix, cur))
               /\ FileArray(logObj[a.prefix][cur]) = FileArray(was) \o a.updates
               /\ IndexPuts(p) = {}
               /\ indexObj = pre[p].index

C3_Witness ==
  \E p \in Procs :
    /\ Succeeded(p)
    /\ HadCurrentFile(p)
    /\ LET old == IndexList(pre[p].index[ap[p].prefix])
       IN  /\ ContentLength(pre[p].logs[ap[p].prefix][old[Len(old)]].body) = 524288
           /\ Len(IndexList(indexObj[ap[p].prefix])) = Len(old) + 1

\* C4: whatever step of a call fails or succeeds, the stored Index of every
\* key is the Index the call found, or that Index with one entry appended.
C4_IndexMonotone ==
  \A p \in Procs :
    ap[p].pc # "idle" =>
      \A pr \in Prefixes :
        LET old == IndexList(pre[p].index[pr])
            new == IndexList(indexObj[pr])
        IN  new = old \/ GrownByOne(old, new)

C4_Witness ==
  \E p \in Procs :
    /\ Returned(p)
    /\ ap[p].ret.kind = "throw"
    /\ Len(IndexList(pre[p].index[ap[p].prefix])) > 0
    /\ GrownByOne(IndexList(pre[p].index[ap[p].prefix]), IndexList(indexObj[ap[p].prefix]))

\* C5: the Index naming a new file is written before the file's first
\* contents, so every log file object that exists is listed in its Index.
C5_IndexBeforeFile ==
  /\ \A pr \in Prefixes, id \in FileIds :
       logObj[pr][id].exists => id \in Range(IndexList(indexObj[pr]))
  /\ \A p \in Procs : \A i \in 1..Len(reqs[p]) :
       (/\ reqs[p][i].op = "PUT"
        /\ reqs[p][i].key # IndexKey(ap[p].prefix)
        /\ reqs[p][i].key.id \notin Range(IndexList(pre[p].index[ap[p].prefix])))
       => \E j \in 1..(i - 1) :
            reqs[p][j] = Req("PUT", IndexKey(ap[p].prefix), 200)

C5_Witness ==
  \E p \in Procs :
    /\ Succeeded(p)
    /\ Len(IndexList(pre[p].index[ap[p].prefix])) > 0
    /\ ap[p].ret.key.id \notin Range(IndexList(pre[p].index[ap[p].prefix]))

\* C7: an append of no records returns null and makes no blob-store request,
\* also for a key that has no Index yet.
C7_EmptyAppendNoop ==
  \A p \in Procs :
    (ap[p].pc # "idle" /\ ap[p].updates = <<>>) =>
      /\ ap[p].pc = "done"
      /\ ap[p].ret.kind = "null"
      /\ reqs[p] = <<>>
      /\ indexObj = pre[p].index
      /\ logObj = pre[p].logs

C7_Witness ==
  \E p \in Procs :
    /\ Returned(p)
    /\ ap[p].updates = <<>>
    /\ ap[p].ret.kind = "null"
    /\ ~indexObj[ap[p].prefix].exists

\* C8: a 404 is no error: an append none of whose requests failed with
\* another error succeeds; without an Index it starts one, and with an
\* Index whose last file is absent it appends a new id, keeping the entries.
C8_NotFoundIsNoError ==
  \A p \in Procs :
    LET a == ap[p]
        old == IndexList(pre[p].index[a.prefix])
        created(list) ==
          \E id \in FileIds :
            /\ IndexList(indexObj[a.prefix]) = Append(list, id)
            /\ logObj[a.prefix][id].exists
            /\ FileArray(logObj[a.prefix][id]) = a.updates
    IN  /\ (/\ Returned(p)
            /\ a.updates # <<>>
            /\ \A i \in 1..Len(reqs[p]) : reqs[p][i].status \in {200, 404})
           => Succeeded(p)
        /\ (Succeeded(p) /\ ~pre[p].index[a.prefix].exists) => created(<<>>)
        /\ (Succeeded(p) /\ Len(old) > 0 /\ ~HadCurrentFile(p)) => created(old)

C8_Witness ==
  \E p \in Procs :
    /\ Succeeded(p)
    /\ Len(IndexList(pre[p].index[ap[p].prefix])) > 0
    /\ ~HadCurrentFile(p)
    /\ \E i \in 1..Len(reqs[p]) : reqs[p][i].status = 404

\* C9: when the read of the Index or of the last log file fails with an
\* error other than 404, append raises that error and has written nothing.
C9_ReadErrorPropagates ==
  \A p \in Procs : \A i \in 1..Len(reqs[p]) :
    (reqs[p][i].op = "GET" /\ reqs[p][i].status \notin {200, 404}) =>
      /\ ap[p].pc = "done"
      /\ ap[p].ret.kind = "throw"
      /\ ap[p].ret.status = reqs[p][i].status
      /\ \A j \in 1..Len(reqs[p]) : reqs[p][j].op # "PUT"
      /\ indexObj = pre[p].index
      /\ logObj = pre[p].logs

C9_Witness ==
  \E p \in Procs :
    /\ Returned(p)
    /\ Len(reqs[p]) = 2
    /\ reqs[p][2].op = "GET"
    /\ reqs[p][2].status = 500

\* C6: two interleaved appends on one key that both returned a path of the
\* same file leave in it the array one of them read plus that call's own
\* records: the whole-file rewrite of the last writer wins, no write is
\* refused.
C6_LastWriterWins ==
  \A p, q \in Procs :
    (p # q /\ Succeeded(p) /\ Succeeded(q) /\ ap[p].ret.key = ap[q].ret.key) =>
      LET arr == FileArray(logObj[ap[p].prefix][ap[p].ret.key.id])
      IN  arr \in { ap[p].contents \o ap[p].updates, ap[q].contents \o ap[q].updates }

\* both calls returned successfully and a record of one is in no log file
C6_Witness ==
  \E p, q \in Procs :
    /\ p # q
    /\ Succeeded(p)
    /\ Succeeded(q)
    /\ ap[p].ret.key = ap[q].ret.key
    /\ \E u \in Range(ap[p].updates) :
         \A id \in FileIds :
           logObj[ap[p].prefix][id].exists =>
             u \notin Range(FileArray(logObj[ap[p].prefix][id]))

(***************************************************************************)
(* What the claims about the pipeline speak of.                            *)
(***************************************************************************)
\* the message parsed: its body is JSON, and so is the inner message of a
\* notification wrapper
Parsed(msg) ==
  /\ ~ParseThrows(msg.Body)
  /\ IsSns(JsonParse(msg.Body)) => ~ParseThrows(JsonParse(msg.Body).Message)

\* the payload of a parsed message, unwrapped
PayloadOf(msg) ==
  IF IsSns(JsonParse(msg.Body)) THEN JsonParse(JsonParse(msg.Body).Message)
  ELSE JsonParse(msg.Body)

\* the message parsed and its payload has a key
Keyed(msg) == Parsed(msg) /\ HasKey(PayloadOf(msg))

\* a media event without its key
EventOf(u) == [mediaHash |-> u.mediaHash, timestamp |-> u.timestamp]

\* the events of the keyed messages of msgs with key k, in the order of msgs
RECURSIVE EventsOfKey(_, _)
EventsOfKey(msgs, k) ==
  IF msgs = <<>> THEN <<>>
  ELSE (IF Keyed(Head(msgs)) /\ PayloadOf(Head(msgs)).contentBusId = k
        THEN << EventOf(PayloadOf(Head(msgs))) >> ELSE <<>>)
       \o EventsOfKey(Tail(msgs), k)

KeysOf(msgs) ==
  { PayloadOf(msgs[i]).contentBusId : i \in { j \in 1..Len(msgs) : Keyed(msgs[j]) } }

\* the record list of an outbound message
RecordsOf(payload) ==
  LET updates == JsonParse(payload.MessageBody).updates
  IN  [i \in 1..Len(updates) |-> EventOf(updates[i])]

\* C10: once the pipeline has sent, it has made one send call; the call
\* holds exactly one outbound message per key occurring among the received
\* messages that parsed and have a key, with that key as MessageGroupId and
\* with the events of the received messages of that key, each once, in
\* receive order, as its record list.
C10_Grouping ==
  /\ Len(pl.sent) <= 1
  /\ pl.pc = "delete" => Len(pl.sent) = 1
  /\ Len(pl.sent) = 1 =>
       LET out == pl.sent[1]
       IN  /\ \A k \in KeysOf(pl.msgs) :
                 \E i \in 1..Len(out) :
                   /\ out[i].MessageGroupId = k
                   /\ \A j \in 1..Len(out) : out[j].MessageGroupId = k => j = i
           /\ \A i \in 1..Len(out) :
                 /\ out[i].MessageGroupId \in KeysOf(pl.msgs)
                 /\ RecordsOf(out[i]) = EventsOfKey(pl.msgs, out[i].MessageGroupId)

(***************************************************************************)
(* What the end-to-end claim speaks of.                                    *)
(***************************************************************************)
\* no invocation is under way and the output queue holds no message: no
\* later step writes an event of a message the input queue no longer holds
Quiescent ==
  /\ pl.pc \in {"idle", "done"}
  /\ h.pc \in {"idle", "done"}
  /\ outQ = <<>>

\* a log file of key k contains the event e
Logged(k, e) ==
  \E id \in FileIds :
    LET obj == logObj[ContentBusPrefix(k)][id]
    IN  /\ obj.exists
        /\ \E i \in 1..Len(FileArray(obj)) : EventOf(FileArray(obj)[i]) = e

\* C1: every event that the pipeline received as valid JSON with a key and
\* whose input message was deleted from the input queue is, once the
\* pipeline and the handler have nothing left to do, contained in a log
\* file of its key.
C1_AtLeastOnce ==
  Quiescent =>
    \A m \in Inputs \ inQ :
      Keyed(SqsMessage(m)) =>
        Logged(PayloadOf(SqsMessage(m)).contentBusId, EventOf(PayloadOf(SqsMessage(m))))

(***************************************************************************)
(* The pipeline's acknowledgement, skipped messages and response.          *)
(***************************************************************************)
\* the pipeline has made the call op, with the outcome ok
HasCalled(op, ok) == \E i \in 1..Len(pl.trace) : pl.trace[i] = Called(op, ok)

ReceivedIds == { pl.msgs[i].MessageId : i \in 1..Len(pl.msgs) }

\* C11: in an invocation whose receive and send succeeded, delete is called
\* once, with exactly the list of received messages (parsed or not, keyed or
\* not, forwarded or not); when that call succeeded, none of them is in the
\* input queue any more.
C11_Acknowledge ==
  /\ HasCalled("receive", TRUE) /\ HasCalled("send", TRUE) /\ pl.pc = "done"
       => pl.deleted = << pl.msgs >>
  /\ HasCalled("delete", TRUE) => ReceivedIds \cap inQ = {}
  /\ pl.pc # "done" => pl.deleted = <<>>

\* a delete succeeded for a list holding a message that did not parse and a
\* message that was forwarded
C11_Witness ==
  /\ HasCalled("delete", TRUE)
  /\ \E i \in 1..Len(pl.msgs) : ~Parsed(pl.msgs[i])
  /\ \E i \in 1..Len(pl.msgs) : Keyed(pl.msgs[i])
  /\ Len(pl.payloads) = 1
  /\ pl.deleted = << pl.msgs >>

\* the received messages that did not parse
Unparsed == { i \in 1..Len(pl.msgs) : ~Parsed(pl.msgs[i]) }

\* C12: the received messages that are not valid JSON (or whose notification
\* wrapper holds an inner message that is not) leave no trace in what is
\* sent: the payloads are those of the parsed messages alone, each record
\* list the events of the parsed messages of that key; they are in the list
\* passed to delete, gone from the input queue once delete succeeded, and
\* counted in the summary.
C12_MalformedSkipped ==
  HasCalled("receive", TRUE) =>
    /\ pl.payloads = Payloads(GroupFrom(<<>>, SelectSeq(pl.msgs, Parsed)))
    /\ \A i \in 1..Len(pl.payloads) :
         RecordsOf(pl.payloads[i]) =
           EventsOfKey(SelectSeq(pl.msgs, Parsed), pl.payloads[i].MessageGroupId)
    /\ \A d \in 1..Len(pl.deleted) :
         \A i \in Unparsed : \E j \in 1..Len(pl.deleted[d]) : pl.deleted[d][j] = pl.msgs[i]
    /\ HasCalled("delete", TRUE) =>
         /\ \A i \in Unparsed : pl.msgs[i].MessageId \notin inQ
         /\ pl.resp = [status |-> 200, received |-> Len(pl.msgs), plural |-> Len(pl.msgs) # 1]

\* a message that did not parse was received before a keyed one, whose event
\* was sent; both were deleted and counted
C12_Witness ==
  /\ HasCalled("delete", TRUE)
  /\ Len(pl.msgs) = 2
  /\ ~Parsed(pl.msgs[1])
  /\ Keyed(pl.msgs[2])
  /\ Len(pl.payloads) = 1
  /\ RecordsOf(pl.payloads[1]) = << EventOf(PayloadOf(pl.msgs[2])) >>
  /\ pl.resp.received = 2

\* the received messages that parsed and whose payload has no contentBusId
\* (none at all, or the empty string)
Keyless ==
  { i \in 1..Len(pl.msgs) :
      /\ Parsed(pl.msgs[i])
      /\ \/ "contentBusId" \notin DOMAIN PayloadOf(pl.msgs[i])
         \/ PayloadOf(pl.msgs[i]).contentBusId = "" }

NotKeyless(msg) ==
  ~Parsed(msg) \/ ("contentBusId" \in DOMAIN PayloadOf(msg) /\ PayloadOf(msg).contentBusId # "")

\* C13 (contentBusId variant): a parsed payload without contentBusId is in
\* no group: its event is a record of no outbound message, no outbound
\* message has the empty key, and
\* the payloads are those of the other messages alone; its message is in the
\* list passed to delete and gone from the input queue once delete succeeded.
C13_KeylessSkipped ==
  HasCalled("receive", TRUE) =>
    /\ \A i \in Keyless : \A p \in 1..Len(pl.payloads) :
         /\ pl.payloads[p].MessageGroupId # ""
         /\ \A r \in 1..Len(RecordsOf(pl.payloads[p])) :
              RecordsOf(pl.payloads[p])[r] # EventOf(PayloadOf(pl.msgs[i]))
    /\ pl.payloads = Payloads(GroupFrom(<<>>, SelectSeq(pl.msgs, NotKeyless)))
    /\ \A d \in 1..Len(pl.deleted) :
         \A i \in Keyless : \E j \in 1..Len(pl.deleted[d]) : pl.deleted[d][j] = pl.msgs[i]
    /\ HasCalled("delete", TRUE) => \A i \in Keyless : pl.msgs[i].MessageId \notin inQ

\* a payload without key was received together with a keyed one; one
\* outbound message was sent and both input messages were deleted
C13_Witness ==
  /\ HasCalled("delete", TRUE)
  /\ Keyless # {}
  /\ \E i \in 1..Len(pl.msgs) : Keyed(pl.msgs[i])
  /\ Len(pl.payloads) = 1
  /\ ReceivedIds \cap inQ = {}

\* the received messages of the org/site variant that parsed and whose
\* payload has none of org, site, owner and repo
KeylessOrgSite ==
  { i \in 1..Len(pl.msgs) :
      /\ Parsed(pl.msgs[i])
      /\ \A f \in {"org", "site", "owner", "repo"} : f \notin DOMAIN PayloadOf(pl.msgs[i]) }

\* C13 (org/site variant): a parsed payload with none of org, site, owner
\* and repo is in no group: its event is a record of no outbound message
\* passed to send.
C13_KeylessSkippedOrgSite ==
  \A c \in 1..Len(pl.sent) :
    \A i \in KeylessOrgSite : \A p \in 1..Len(pl.sent[c]) :
      \A r \in 1..Len(RecordsOf(pl.sent[c][p])) :
        RecordsOf(pl.sent[c][p])[r] # EventOf(PayloadOf(pl.msgs[i]))

\* C14: when receive failed, the invocation has ended with the response 500
\* and has called neither send nor delete; when receive, send and delete
\* all succeeded, the response is the summary with the number of received
\* messages; an invocation that ended has a response.
C14_ReceiveFailure ==
  /\ HasCalled("receive", FALSE) =>
       /\ pl.pc = "done"
       /\ pl.resp.status = 500
       /\ pl.trace = << Called("receive", FALSE) >>
       /\ pl.sent = <<>> /\ pl.deleted = <<>>
  /\ HasCalled("receive", TRUE) /\ HasCalled("send", TRUE) /\ HasCalled("delete", TRUE) =>
       pl.resp = [status |-> 200, received |-> Len(pl.msgs), plural |-> Len(pl.msgs) # 1]
  /\ pl.pc = "done" => pl.resp.status \in {200, 500}

\* receive failed and the invocation answered 500, the input queue as it was
C14_Witness ==
  /\ HasCalled("receive", FALSE)
  /\ pl.pc = "done"
  /\ pl.resp.status = 500
  /\ inQ = MsgIds /\ outQ = <<>>

(***************************************************************************)
(* What the claims about the delivery handler speak of.                    *)
(***************************************************************************)
\* the handler did op while it processed the message at index i
HDid(op, i) == \E t \in 1..Len(h.trace) : h.trace[t] = Did(op, i)

\* the processing of the message at index i raised an error
RaisedAt(i) ==
  \E op \in {"parse raised", "append raised", "delete raised", "get raised", "warn raised"} :
    HDid(op, i)

\* the processing of the message at index i is over
Finished(i) == i < h.i \/ (i = h.i /\ h.pc \in {"return", "done"})

\* the entries of the messages up to index i that raised, in list order
RECURSIVE FailuresUpTo(_)
FailuresUpTo(i) ==
  IF i = 0 THEN <<>>
  ELSE FailuresUpTo(i - 1) \o
       (IF RaisedAt(i) THEN << [itemIdentifier |-> h.messages[i].messageId] >> ELSE <<>>)

IsStart(entry) == entry.op = "start"

\* the indexes of the messages whose processing began, in the order it began
Started == [t \in 1..Len(SelectSeq(h.trace, IsStart)) |-> SelectSeq(h.trace, IsStart)[t].message]

\* C15: the messages are processed one after another in list order, an
\* error in one never keeping a later one from being processed; at every
\* moment batchItemFailures holds, in list order, one entry with the
\* messageId of each message whose processing raised and no other entry (a
\* message whose body is no JSON always has one, a message with inline body
\* has none while no request failed); the response status is 200.
C15_PartialBatch ==
  /\ \A t \in 1..Len(h.trace), u \in 1..Len(h.trace) :
       t < u => h.trace[t].message <= h.trace[u].message
  /\ Started = [t \in 1..h.i |-> t]
  /\ h.pc \in {"return", "done"} => h.i = Len(h.messages)
  /\ h.batchItemFailures = FailuresUpTo(Len(h.messages))
  /\ \A i \in 1..Len(h.messages) :
       /\ ~Finished(i) => ~RaisedAt(i)
       /\ Finished(i) /\ ParseThrows(h.messages[i].body) => RaisedAt(i)
       /\ /\ failures = 0
          /\ ~ParseThrows(h.messages[i].body)
          /\ ~HasSwap(JsonParse(h.messages[i].body))
          => ~RaisedAt(i)
  /\ h.pc = "done" => h.status = 200

\* the first of two messages raised, the second was appended after it; the
\* response lists the first alone
C15_Witness ==
  /\ h.pc = "done"
  /\ Len(h.messages) = 2
  /\ RaisedAt(1)
  /\ HDid("appended", 2)
  /\ h.batchItemFailures = << [itemIdentifier |-> h.messages[1].messageId] >>
  /\ h.status = 200

\* the blob that the swap pointer of the delivery message at index i names
OwnBlobKey(i) == S3InputFromURL(JsonParse(h.messages[i].body).swapS3Url).Key

\* the message at index i carries a swap pointer
CarriesSwap(i) ==
  /\ ~ParseThrows(h.messages[i].body)
  /\ HasSwap(JsonParse(h.messages[i].body))

\* the first thing the handler did for the message at index i was op
FirstDid(op, i) ==
  \E t \in 1..(Len(h.trace) - 1) : h.trace[t] = Did("start", i) /\ h.trace[t + 1] = Did(op, i)

\* the processing of the message at index i is over and the fetch of the
\* blob that its swap pointer names did not succeed
OwnFetchFailed(i) == Finished(i) /\ CarriesSwap(i) /\ ~FirstDid("get", i)

\* C16: when the fetch of the blob that a delivery message's swap pointer
\* names fails, the handler warns that the message has no records, makes no
\* append call for it, leaves the blob as it was, does not raise and does not
\* list the message in batchItemFailures; after a failed fetch at any depth
\* no append call is made for the message.
C16_SwapFetchFailure ==
  \A i \in 1..Len(h.messages) :
    /\ HDid("get failed", i) => ~HDid("append", i)
    /\ OwnFetchFailed(i) \/ FirstDid("get failed", i) =>
         /\ CarriesSwap(i)
         /\ swapObj[OwnBlobKey(i)] = InitialBlobs[OwnBlobKey(i)]
         /\ ~HDid("delete", i) /\ ~HDid("get", i)
         /\ ~RaisedAt(i)
         /\ Finished(i) =>
              /\ HDid("warn", i)
              /\ FailureOf(h.messages[i]) \notin Range(h.batchItemFailures)

\* the fetch of an existing blob failed; the invocation ended with a warning,
\* no failure entry, the blob still in place and nothing appended
C16_Witness ==
  /\ h.pc = "done"
  /\ Len(h.messages) = 1
  /\ OwnFetchFailed(1)
  /\ FirstDid("get failed", 1)
  /\ swapObj[OwnBlobKey(1)].exists
  /\ HDid("warn", 1)
  /\ h.batchItemFailures = <<>>
  /\ calls = 0
  /\ h.messages[1] \notin Range(outQ)

\* the keys of the blobs that processing the body text fetches one after
\* another when every fetch succeeds, at most n of them
RECURSIVE PointerChain(_, _)
PointerChain(text, n) ==
  IF n = 0 \/ ParseThrows(text) THEN <<>>
  ELSE IF ~HasSwap(JsonParse(text)) THEN <<>>
  ELSE LET key == S3InputFromURL(JsonParse(text).swapS3Url).Key
       IN  << key >> \o (IF InitialBlobs[key].exists
                         THEN PointerChain(InitialBlobs[key].body, n - 1) ELSE <<>>)

\* the number of blobs fetched successfully for the message at index i
NumGets(i) == Cardinality({ t \in 1..Len(h.trace) : h.trace[t] = Did("get", i) })

\* the keys of those blobs, in the order of the fetches
FetchedBlobs(i) == SubSeq(PointerChain(h.messages[i].body, MaxDepth), 1, NumGets(i))

\* the body that the last successful fetch for the message at index i returned
FetchedBody(i) == InitialBlobs[FetchedBlobs(i)[NumGets(i)]].body

\* what holds of the first n blobs fetched successfully for the message at
\* index i: the records of the fetched body are appended under its key, and
\* once the message has completed without error the blobs are deleted, after
\* the append
SwapSuccess(i, n) ==
  /\ h.i = i /\ h.pc = "append" =>
       /\ ap[1].prefix = ContentBusPrefix(JsonParse(FetchedBody(i)).contentBusId)
       /\ ap[1].updates = JsonParse(FetchedBody(i)).updates
  /\ \A t \in 1..Len(h.trace), u \in 1..Len(h.trace) :
       /\ h.trace[t] = Did("delete", i)
       /\ h.trace[u] \in {Did("get", i), Did("append", i), Did("appended", i)}
       => u < t
  /\ Finished(i) /\ ~RaisedAt(i) =>
       /\ \A k \in 1..n : ~swapObj[FetchedBlobs(i)[k]].exists
       /\ HDid("delete", i)
       /\ /\ ~ParseThrows(FetchedBody(i))
          /\ ~HasSwap(JsonParse(FetchedBody(i)))
          /\ HasUpdatesField(JsonParse(FetchedBody(i)))
          => HDid("appended", i)

\* C17: for every swap pointer whose blob was fetched successfully while
\* processing a message that then completes without error, the fetched body
\* is processed as the real message (the records are appended under its key)
\* and the blob is deleted, after the append has completed.
C17_SwapSuccess ==
  \A i \in 1..Len(h.messages) : NumGets(i) > 0 => SwapSuccess(i, NumGets(i))

\* C17 for the swap pointer of the delivery message itself: its blob is
\* deleted after the append of the fetched records.
C17_OwnSwapSuccess ==
  \A i \in 1..Len(h.messages) : NumGets(i) > 0 => SwapSuccess(i, 1)

\* a swapped-out message was fetched, its records appended, its blob deleted
C17_OwnWitness ==
  /\ h.pc = "done"
  /\ Len(h.messages) = 1
  /\ NumGets(1) = 1
  /\ HDid("appended", 1)
  /\ HDid("delete", 1)
  /\ ~RaisedAt(1)
  /\ ~swapObj[OwnBlobKey(1)].exists

\* the body of the message at index i has neither a swap pointer nor records
Neither(i) ==
  /\ ~ParseThrows(h.messages[i].body)
  /\ ~HasSwap(JsonParse(h.messages[i].body))
  /\ ~HasUpdatesField(JsonParse(h.messages[i].body))

\* C18: for a delivery message whose body has neither a swap pointer nor
\* records the handler makes no append call and no request to the blob
\* store, raises nothing and lists no failure; it only warns.
C18_NoRecords ==
  \A i \in 1..Len(h.messages) :
    Neither(i) =>
      /\ \A t \in 1..Len(h.trace) :
           h.trace[t].message = i => h.trace[t].op \in {"start", "warn"}
      /\ h.i = i => h.pc \notin {"append", "deserialize"} /\ ~h.cleanup.set
      /\ Finished(i) =>
           /\ HDid("warn", i)
           /\ FailureOf(h.messages[i]) \notin Range(h.batchItemFailures)

\* such a message was the whole batch: the invocation ended with a warning,
\* without failure entry, the stores as they were, the message consumed
C18_Witness ==
  /\ h.pc = "done"
  /\ Len(h.messages) = 1
  /\ Neither(1)
  /\ HDid("warn", 1)
  /\ h.batchItemFailures = <<>>
  /\ calls = 0
  /\ failures = 0
  /\ swapObj = InitialBlobs
  /\ \A prefix \in AllPrefixes : ~indexObj[prefix].exists
  /\ outQ = <<>>

(***************************************************************************)
(* The metadata of the log files.                                          *)
(***************************************************************************)
\* the log file that the append call of p has just written carries the
\* formatted timestamp of the last record of the call's batch
WriteCarriesBatchTime(p) ==
  ap[p].pc = "done" /\ ap[p].ret.kind = "path" =>
    LET file == logObj[ap[p].prefix][ap[p].key.id]
        batch == ap[p].updates
    IN  /\ file.exists
        /\ file.meta = DateFormatFormat(batch[Len(batch)].timestamp)

\* every log file in the store carries the formatted timestamp of the last
\* element of its JSON array
FilesCarryLastEventTime ==
  \A prefix \in AllPrefixes, id \in FileIds :
    logObj[prefix][id].exists =>
      LET array == FileArray(logObj[prefix][id])
      IN  /\ Len(array) > 0
          /\ logObj[prefix][id].meta = DateFormatFormat(array[Len(array)].timestamp)

\* C19: a log file written by an append call carries last-event-time equal
\* to DateFormat.format of the timestamp of the last record of the call's
\* batch; every log file in the store carries last-event-time equal to the
\* formatted timestamp of the last element of its JSON array.
C19_LastEventTime ==
  /\ \A p \in Procs : WriteCarriesBatchTime(p)
  /\ FilesCarryLastEventTime

\* a second append call added two records with different formatted times to
\* a file that held records already; the metadata is that of the last one
C19_Witness ==
  /\ calls = 2
  /\ ap[1].pc = "done" /\ ap[1].ret.kind = "path"
  /\ Len(ap[1].updates) = 2
  /\ DateFormatFormat(ap[1].updates[1].timestamp) # DateFormatFormat(ap[1].updates[2].timestamp)
  /\ Len(FileArray(logObj[ap[1].prefix][ap[1].key.id])) > 2
  /\ logObj[ap[1].prefix][ap[1].key.id].meta = DateFormatFormat(ap[1].updates[2].timestamp)

(***************************************************************************)
(* trigger.js, the variant whose delivery messages carry `key`, the text   *)
(* `${org}/${site}`.  A key is written as the list of its pieces, "/"      *)
(* being the separator.                                                    *)
(***************************************************************************)
Slash == "/"

\* text.split('/'): the parts between the separators, each a list of pieces
RECURSIVE Split(_)
Split(text) ==
  IF text = <<>> THEN << <<>> >>
  ELSE IF Head(text) = Slash THEN << <<>> >> \o Split(Tail(text))
  ELSE LET rest == Split(Tail(text))
       IN  << << Head(text) >> \o rest[1] >> \o Tail(rest)

\* a part as a string; the parts of the keys below have one piece each
PartText(part) == IF Len(part) = 1 THEN part[1] ELSE ""

\* const [destOrg, destSite] = key.split('/'); MediaLog.create(context,
\* { org: destOrg, site: destSite !== '*' ? destSite : '*' }); a missing
\* part is undefined and `${site}` of the paths makes it "undefined"
DestPrefix(key) ==
  LET parts == Split(key)
  IN  [org |-> PartText(parts[1]),
       site |-> IF Len(parts) >= 2 THEN PartText(parts[2]) ELSE "undefined"]

\* ({ org, site, owner, repo, ref, result }) => ({ ...result, org, site,
\* owner, repo, ref }); what is undefined is left out by JSON.stringify
MapUpdate(u) ==
  LET result == IF "result" \in DOMAIN u THEN u.result ELSE [x \in {} |-> 0]
      named == DOMAIN u \cap {"org", "site", "owner", "repo", "ref"}
  IN  [f \in DOMAIN result \cup named |-> IF f \in named THEN u[f] ELSE result[f]]

MapUpdates(updates) == [j \in 1..Len(updates) |-> MapUpdate(updates[j])]

\* an update as the grouping of the org/site variant forwards it
KeyUpdate(site, n) ==
  [org |-> "org", site |-> site, ref |-> "main",
   result |-> [mediaHash |-> 20 + n, timestamp |-> 80000 + 1000 * n]]

KeyDeliveryIds == 1..4

\* message.body of the delivery messages: the keys org/site, org/* and
\* org/site/x with one update each, and a swapped-out message of org/site
KeyDeliveryBody(d) ==
  CASE d = 1 -> JsonStringify([key |-> << "org", Slash, "site" >>,
                               updates |-> << KeyUpdate("site", 1) >>])
    [] d = 2 -> JsonStringify([key |-> << "org", Slash, "*" >>,
                               updates |-> << KeyUpdate("site", 2) >>])
    [] d = 3 -> JsonStringify([key |-> << "org", Slash, "site", Slash, "x" >>,
                               updates |-> << KeyUpdate("site/x", 3) >>])
    [] OTHER -> JsonStringify([key |-> << "org", Slash, "site" >>, swapS3Url |-> SwapUrl(1)])

KeyDeliveryMessage(d) == [messageId |-> d, body |-> KeyDeliveryBody(d)]

\* blob 1 holds the swapped-out body of message 4
KeyBlobs ==
  [k \in BlobKeys |->
     IF k = 1
     THEN [exists |-> TRUE,
           body |-> JsonStringify([key |-> << "org", Slash, "site" >>,
                                   updates |-> << KeyUpdate("site", 4) >>])]
     ELSE NoBlob]

KeyDeliveryLists ==
  { << KeyDeliveryMessage(a) >> : a \in KeyDeliveryIds } \cup
  { << KeyDeliveryMessage(p[1]), KeyDeliveryMessage(p[2]) >> :
      p \in { q \in KeyDeliveryIds \X KeyDeliveryIds : q[1] # q[2] } }

\* deserialize: catch (e), return { body: JSON.stringify({ key }) }
FetchFailedKey ==
  [h EXCEPT !.pc = "process",
            !.body = JsonStringify([f \in DOMAIN JsonParse(h.body) \cap {"key"} |->
                                      JsonParse(h.body)[f]]),
            !.depth = h.depth + 1, !.trace = Append(@, Did("get failed", h.i))]

\* processMessage(context, message) up to its first await
ProcessMessageKey ==
  /\ h.pc = "process"
  /\ IF ParseThrows(h.body)
     THEN h' = Raise("parse raised") /\ UNCHANGED storeVars
     ELSE LET body == JsonParse(h.body)
          IN  IF HasSwap(body)
              THEN /\ h' = [h EXCEPT !.pc = "deserialize", !.url = body.swapS3Url]
                   /\ UNCHANGED storeVars
              ELSE IF HasUpdatesField(body)
              THEN /\ AppendCall(1, DestPrefix(body.key), MapUpdates(body.updates))
                   /\ h' = [h EXCEPT !.pc = "append", !.trace = Append(@, Did("append", h.i))]
              ELSE /\ h' = NoUpdates
                   /\ UNCHANGED storeVars
  /\ UNCHANGED << queueVars, polls, pl, sideVars >>

\* deserialize(context, key, s3Url, message): the GetObject request
DeserializeKey ==
  /\ h.pc = "deserialize"
  /\ h.depth < MaxDepth
  /\ LET input == S3InputFromURL(h.url)
         blob == swapObj[input.Key]
     IN  \/ /\ blob.exists
            /\ h' = [h EXCEPT !.pc = "process", !.body = blob.body, !.depth = h.depth + 1,
                              !.cleanup = IF h.depth = 0
                                          THEN [set |-> TRUE, key |-> input.Key] ELSE @,
                              !.trace = Append(@, Did("get", h.i))]
            /\ UNCHANGED failures
         \/ /\ ~blob.exists \/ failures < MaxFailures
            /\ failures' = IF blob.exists THEN failures + 1 ELSE failures
            /\ h' = FetchFailedKey
  /\ UNCHANGED << storeRest, queueVars, polls, pl, sideVars >>

HandlerKeyInit ==
  /\ BlobInit
  /\ inQ = {}
  /\ outQ \in KeyDeliveryLists
  /\ outNext = 9
  /\ swapObj = KeyBlobs
  /\ polls = 0
  /\ pl = IdlePl
  /\ h = IdleH
  /\ df = IdleDf
  /\ rq = IdleRq

HandlerKeyNext ==
  \/ HandlerInvoke
  \/ ProcessMessageKey
  \/ DeserializeKey
  \/ FetchIndex(1) /\ UNCHANGED otherVars
  \/ FetchLogFile(1) /\ UNCHANGED otherVars
  \/ PutIndex(1) /\ UNCHANGED otherVars
  \/ StoreLogFile(1) /\ UNCHANGED otherVars
  \/ AppendReturn
  \/ Cleanup
  \/ HandlerReturn

SpecHandlerKey == HandlerKeyInit /\ [][HandlerKeyNext]_vars

(***************************************************************************)
(* Keys and storage prefixes.                                              *)
(***************************************************************************)
\* the bodies with records that the delivery handler can get to see, in the
\* messages and in the blobs
CarriedBodies ==
  { JsonParse(t) :
      t \in { b \in { DeliveryBody(d) : d \in DeliveryIds }
                    \cup { KeyDeliveryBody(d) : d \in KeyDeliveryIds }
                    \cup { InitialBlobs[k].body : k \in { j \in BlobKeys : InitialBlobs[j].exists } }
                    \cup { KeyBlobs[k].body : k \in { j \in BlobKeys : KeyBlobs[j].exists } } :
                ~ParseThrows(b) /\ HasUpdatesField(JsonParse(b)) } }

\* the Logical Key of a body, as the list of its pieces
KeyOfBody(body) == IF "key" \in DOMAIN body THEN body.key ELSE << body.contentBusId >>

\* the records that processing the body passes to append
RecordsOfBody(body) ==
  IF "key" \in DOMAIN body THEN Range(MapUpdates(body.updates)) ELSE Range(body.updates)

\* the keys of the delivery messages that carry the record
KeysCarrying(record) == { KeyOfBody(b) : b \in { c \in CarriedBodies : record \in RecordsOfBody(c) } }

\* the text `<org>/<site>` (`<contentBusId>`) that the paths of the objects
\* of a prefix begin with
StoragePrefix(prefix) ==
  IF prefix.site = "" THEN << prefix.org >> ELSE << prefix.org, Slash, prefix.site >>

\* C20: keys are never merged or split: every record in a log file is one
\* that a delivery message carried, the file lies under the storage prefix
\* <key>/ of exactly that message's key, so that no prefix holds records of
\* two different keys; the Index and the log files that the append call for
\* a message writes lie under the prefix of that message's key.
C20_KeysNeverMerged ==
  \A prefix \in AllPrefixes :
    /\ \A id \in FileIds :
         logObj[prefix][id].exists =>
           \A record \in Range(FileArray(logObj[prefix][id])) :
             KeysCarrying(record) = { StoragePrefix(prefix) }
    /\ /\ h.pc = "append"
       /\ indexObj[prefix] # pre[1].index[prefix] \/ logObj[prefix] # pre[1].logs[prefix]
       => StoragePrefix(prefix) = KeyOfBody(JsonParse(h.body))

\* C20 for the keys of the form org/site alone: their records are written
\* under org/site/.
C20_TwoPartKeys ==
  \A prefix \in AllPrefixes :
    /\ \A id \in FileIds :
         logObj[prefix][id].exists =>
           \A record \in Range(FileArray(logObj[prefix][id])) :
             (\A key \in KeysCarrying(record) : Len(Split(key)) = 2) =>
               KeysCarrying(record) = { StoragePrefix(prefix) }
    /\ /\ h.pc = "append"
       /\ Len(Split(KeyOfBody(JsonParse(h.body)))) = 2
       /\ indexObj[prefix] # pre[1].index[prefix] \/ logObj[prefix] # pre[1].logs[prefix]
       => StoragePrefix(prefix) = KeyOfBody(JsonParse(h.body))

\* records of two delivery messages with different keys were written, each
\* to a log file under the prefix of its own key
C20_Witness ==
  /\ h.pc = "done"
  /\ Len(h.messages) = 2
  /\ HDid("appended", 1) /\ HDid("appended", 2)
  /\ \E p1 \in AllPrefixes, p2 \in AllPrefixes :
       /\ p1 # p2
       /\ \E id \in FileIds : logObj[p1][id].exists
       /\ \E id \in FileIds : logObj[p2][id].exists

(***************************************************************************)
(* The order of the Index.                                                 *)
(***************************************************************************)
\* a < b as strings: the ids have one width, the time comes first, then the
\* random hex digits (upper case, so their order is that of the numbers)
LexLess(a, b) == a.t < b.t \/ (a.t = b.t /\ a.r < b.r)

\* the file ids listed in the Index of a prefix, in the order of the lines
Listed(prefix) ==
  LET IsId(line) == line \in FileIds
  IN  SelectSeq(IndexList(indexObj[prefix]), IsId)

\* C21: the entries of a key's Index, which are in the order of creation,
\* are in strictly ascending lexicographic order, also when two files were
\* created within the same whole second.
C21_IndexAscending ==
  \A prefix \in AllPrefixes :
    \A i \in 1..Len(Listed(prefix)), j \in 1..Len(Listed(prefix)) :
      i < j => LexLess(Listed(prefix)[i], Listed(prefix)[j])

\* C21 for files created in different seconds: the later one sorts later.
C21_AscendingAcrossSeconds ==
  \A prefix \in AllPrefixes :
    \A i \in 1..Len(Listed(prefix)), j \in 1..Len(Listed(prefix)) :
      i < j /\ Listed(prefix)[i].t # Listed(prefix)[j].t
      => LexLess(Listed(prefix)[i], Listed(prefix)[j])

\* an Index lists two files created in different seconds
C21_AcrossSecondsWitness ==
  \E prefix \in AllPrefixes :
    /\ Len(Listed(prefix)) = 2
    /\ Listed(prefix)[1].t < Listed(prefix)[2].t

\* no append call is under way
AtRest == \A p \in Procs : ap[p].pc \in {"idle", "done"}

\* a log file object of the prefix has been written (none is ever deleted)
FileWritten(prefix) == \E id \in FileIds : logObj[prefix][id].exists

\* C22: between the append calls, also after one that failed at a write, the
\* Index of a key is empty (absent or without entries) if and only if no log
\* file object has been written for the key.
C22_IndexEmptyIff ==
  AtRest => \A prefix \in AllPrefixes : (Listed(prefix) = <<>>) <=> ~FileWritten(prefix)

(***************************************************************************)
(* The size that decides the rotation.                                     *)
(***************************************************************************)
\* bytes one record adds to the JSON text: gzip makes a record smaller, here
\* to a quarter
USize(u) == 4 * ZSize(u)

RECURSIVE SumU(_)
SumU(s) == IF s = <<>> THEN 0 ELSE USize(Head(s)) + SumU(Tail(s))

\* the length of JSON.stringify(contents), the uncompressed size of a file
JsonLength(contents) == 2 + SumU(contents)

\* C23: the size compared with 524288 to decide whether the file listed last
\* receives the new records is the length of its JSON text: a successful
\* append rewrites that file exactly when this length is below 524288 and
\* creates a new file otherwise.
C23_UncompressedThreshold ==
  \A p \in Procs :
    (Succeeded(p) /\ HadCurrentFile(p)) =>
      LET a == ap[p]
          old == IndexList(pre[p].index[a.prefix])
          cur == old[Len(old)]
          was == pre[p].logs[a.prefix][cur]
      IN  IF JsonLength(FileArray(was)) >= 524288
          THEN /\ a.ret.key # WithGz(LogKey(a.prefix, cur))
               /\ logObj[a.prefix][cur] = was
          ELSE /\ a.ret.key = WithGz(LogKey(a.prefix, cur))
               /\ FileArray(logObj[a.prefix][cur]) = FileArray(was) \o a.updates

\* C23 for the files whose JSON text and stored object are on the same side
\* of 524288: they are rewritten or left as the claim says.
C23_SameSide ==
  \A p \in Procs :
    (Succeeded(p) /\ HadCurrentFile(p)) =>
      LET a == ap[p]
          old == IndexList(pre[p].index[a.prefix])
          cur == old[Len(old)]
          was == pre[p].logs[a.prefix][cur]
      IN  /\ (JsonLength(FileArray(was)) >= 524288 /\ ContentLength(was.body) >= 524288)
             => a.ret.key # WithGz(LogKey(a.prefix, cur)) /\ logObj[a.prefix][cur] = was
          /\ (JsonLength(FileArray(was)) < 524288 /\ ContentLength(was.body) < 524288)
             => a.ret.key = WithGz(LogKey(a.prefix, cur))

(***************************************************************************)
(* DateFormat: an instant as the text YYYY-MM-DD-HH-mm-ss (UTC) and back.  *)
(* An instant is [sec, ms]: whole seconds since the epoch and the          *)
(* milliseconds within the second.  A text is the list of its characters.  *)
(***************************************************************************)
Digit(n) ==
  CASE n = 0 -> "0" [] n = 1 -> "1" [] n = 2 -> "2" [] n = 3 -> "3" [] n = 4 -> "4"
    [] n = 5 -> "5" [] n = 6 -> "6" [] n = 7 -> "7" [] n = 8 -> "8" [] OTHER -> "9"

DigitValue(c) == CHOOSE n \in 0..9 : Digit(n) = c

\* n in decimal, padded with zeros to the width
RECURSIVE Pad(_, _)
Pad(n, width) ==
  IF width = 0 THEN <<>> ELSE Append(Pad(n \div 10, width - 1), Digit(n % 10))

\* the number that a list of digits writes
RECURSIVE NumberOf(_)
NumberOf(chars) ==
  IF chars = <<>> THEN 0
  ELSE 10 * NumberOf(SubSeq(chars, 1, Len(chars) - 1)) + DigitValue(chars[Len(chars)])

\* the UTC calendar date of the day z days after 1970-01-01
CivilFromDays(z) ==
  LET shifted == z + 719468
      era == shifted \div 146097
      doe == shifted - era * 146097
      yoe == (doe - doe \div 1460 + doe \div 36524 - doe \div 146096) \div 365
      doy == doe - (365 * yoe + yoe \div 4 - yoe \div 100)
      mp == (5 * doy + 2) \div 153
      month == IF mp < 10 THEN mp + 3 ELSE mp - 9
  IN  [year |-> yoe + era * 400 + (IF month <= 2 THEN 1 ELSE 0),
       month |-> month,
       day |-> doy - (153 * mp + 2) \div 5 + 1]

\* Date.UTC(year, month - 1, day) in days
DaysFromCivil(year, month, day) ==
  LET y == IF month <= 2 THEN year - 1 ELSE year
      era == y \div 400
      yoe == y - era * 400
      doy == (153 * (IF month > 2 THEN month - 3 ELSE month + 9) + 2) \div 5 + day - 1
      doe == yoe * 365 + yoe \div 4 - yoe \div 100 + doy
  IN  era * 146097 + doe - 719468

\* the separators of the ISO text: YYYY-MM-DDTHH:mm:ss
DateFormatTextIso(t) ==
  LET date == CivilFromDays(t.sec \div 86400)
      rest == t.sec % 86400
  IN  Pad(date.year, 4) \o << "-" >> \o Pad(date.month, 2) \o << "-" >> \o Pad(date.day, 2)
      \o << "T" >> \o Pad(rest \div 3600, 2) \o << ":" >> \o Pad((rest % 3600) \div 60, 2)
      \o << ":" >> \o Pad(rest % 60, 2)

\* DateFormat.format(date): YYYY-MM-DD-HH-mm-ss, UTC, the milliseconds dropped
DateFormatText(t) ==
  LET date == CivilFromDays(t.sec \div 86400)
      rest == t.sec % 86400
  IN  Pad(date.year, 4) \o << "-" >> \o Pad(date.month, 2) \o << "-" >> \o Pad(date.day, 2)
      \o << "-" >> \o Pad(rest \div 3600, 2) \o << "-" >> \o Pad((rest % 3600) \div 60, 2)
      \o << "-" >> \o Pad(rest % 60, 2)

\* DateFormat.parse(text): the instant the six numbers of the text name
DateFormatParse(text) ==
  LET Field(from, to) == NumberOf(SubSeq(text, from, to))
  IN  [sec |-> DaysFromCivil(Field(1, 4), Field(6, 7), Field(9, 10)) * 86400
               + Field(12, 13) * 3600 + Field(15, 16) * 60 + Field(18, 19),
       ms |-> 0]

\* the days, the seconds of the day and the milliseconds of the instants
\* that are formatted: the ends of months and years, leap days, the last
\* day that 32 bits of seconds hold
Days == {0, 58, 59, 365, 10956, 11016, 11017, 19722, 19737, 19782, 20088, 24854}

DaySeconds == {0, 59, 3600, 37845, 86399}

Millis == {0, 500}

Instants == { [sec |-> d * 86400 + s, ms |-> m] : d \in Days, s \in DaySeconds, m \in Millis }

DateInit ==
  /\ BlobInit
  /\ inQ = {}
  /\ outQ = <<>>
  /\ outNext = 1
  /\ swapObj = [k \in BlobKeys |-> NoBlob]
  /\ polls = 0
  /\ pl = IdlePl
  /\ h = IdleH
  /\ rq = IdleRq
  /\ df \in { [IdleDf EXCEPT !.t = t] : t \in Instants }

\* DateFormat.format(new Date(t))
Format ==
  /\ df.pc = "idle"
  /\ df' = [df EXCEPT !.pc = "formatted", !.text = DateFormatText(df.t)]
  /\ UNCHANGED << storeVars, queueVars, polls, pl, h, rq >>

\* DateFormat.parse(text) of the text that format gave
Parse ==
  /\ df.pc = "formatted"
  /\ df' = [df EXCEPT !.pc = "parsed", !.back = DateFormatParse(df.text)]
  /\ UNCHANGED << storeVars, queueVars, polls, pl, h, rq >>

DateNext == Format \/ Parse

SpecDate == DateInit /\ [][DateNext]_vars

\* the characters of a text at the places of the separators
Separators(text) == { text[i] : i \in {5, 8, 11, 14, 17} \cap DOMAIN text }

\* C24: for every instant t of whole seconds parse(format(t)) is t (for any
\* t it is t without its milliseconds), and format(t) has 19 characters,
\* "-" at the five places of the separators and digits elsewhere, the
\* fields being the UTC year, month, day, hour, minute and second of t.
C24_RoundTrip ==
  /\ df.pc \in {"formatted", "parsed"} =>
       /\ Len(df.text) = 19
       /\ Separators(df.text) = {"-"}
       /\ \A i \in 1..19 \ {5, 8, 11, 14, 17} : df.text[i] \in { Digit(n) : n \in 0..9 }
       /\ NumberOf(SubSeq(df.text, 6, 7)) \in 1..12
       /\ NumberOf(SubSeq(df.text, 9, 10)) \in 1..31
       /\ NumberOf(SubSeq(df.text, 12, 13)) = (df.t.sec % 86400) \div 3600
       /\ NumberOf(SubSeq(df.text, 15, 16)) = (df.t.sec % 3600) \div 60
       /\ NumberOf(SubSeq(df.text, 18, 19)) = df.t.sec % 60
  /\ df.pc = "parsed" =>
       /\ df.back = [sec |-> df.t.sec, ms |-> 0]
       /\ df.t.ms = 0 => df.back = df.t

\* 2024-01-15T10:30:45Z was formatted as 2024-01-15-10-30-45 and parsed back
C24_Witness ==
  /\ df.pc = "parsed"
  /\ df.t = [sec |-> 1705314645, ms |-> 0]
  /\ df.text = << "2", "0", "2", "4", "-", "0", "1", "-", "1", "5", "-",
                  "1", "0", "-", "3", "0", "-", "4", "5" >>
  /\ df.back = df.t

(***************************************************************************)
(* index.js: run(request, context), the one entry point.                   *)
(***************************************************************************)
\* the messageId of a message that has none (undefined)
NoMessageId == 0

\* the JSON array of n delivery messages, as in the README's 'Testing
\* Locally': [{ "messageId": ..., "body": "..." }, ...]
MessageArray(n) == JsonArray([i \in 1..n |-> DeliveryMessage(IF i = 1 THEN 1 ELSE 6)])

\* the requests: context.data.source, context.records (absent, empty, one
\* inline message, one swapped-out message), the method, the content-type
\* and, for a JSON body, what request.json() gives: the body of a delivery
\* message or an array of delivery messages
Requests ==
  { [source |-> source, hasRecords |-> records[1], records |-> records[2],
     method |-> method, contentType |-> contentType, json |-> json] :
      source \in {"aws.events", "other"},
      records \in { << FALSE, <<>> >>, << TRUE, <<>> >>,
                    << TRUE, << DeliveryMessage(1) >> >>,
                    << TRUE, << DeliveryMessage(1), DeliveryMessage(2) >> >> },
      method \in {"GET", "POST"},
      contentType \in {"application/json", "text/plain"},
      json \in { JsonParse(DeliveryBody(1)), JsonParse(DeliveryBody(5)),
                  MessageArray(1), MessageArray(2) } }

\* messages = [{ body: JSON.stringify(await request.json()) }]
ManualMessages(request) == << [messageId |-> NoMessageId, body |-> JsonStringify(request.json)] >>

IsManual(request) ==
  ~request.hasRecords /\ request.method = "POST" /\ request.contentType = "application/json"

DispatchRecordsFirst(request) ==
  IF request.hasRecords THEN "trigger"
  ELSE IF request.source = "aws.events" THEN "events"
  ELSE IF IsManual(request) THEN "trigger"
  ELSE "bad request"

\* what run calls: events(context), trigger(context, messages) or neither
Dispatch(request) ==
  IF request.source = "aws.events" THEN "events"
  ELSE IF request.hasRecords \/ IsManual(request) THEN "trigger"
  ELSE "bad request"

\* the messages that run passes to trigger
MessagesOf(request) ==
  IF request.hasRecords THEN request.records ELSE ManualMessages(request)

\* run(request, context) up to the call of events or trigger, or the
\* response 'Bad Request'
Run ==
  /\ rq.pc = "idle"
  /\ \E request \in Requests :
       rq' = [pc |-> IF Dispatch(request) = "bad request" THEN "done" ELSE "dispatched",
              request |-> request,
              target |-> Dispatch(request),
              status |-> IF Dispatch(request) = "bad request" THEN 400 ELSE 0]
  /\ UNCHANGED << storeVars, queueVars, polls, pl, h, df >>

\* events(context): the first step of the pipeline
RunEvents ==
  /\ rq.pc = "dispatched"
  /\ rq.target = "events"
  /\ pl.pc = "idle"
  /\ PipeReceive

\* trigger(context, messages): doRun begins with the first message
RunTrigger ==
  /\ rq.pc = "dispatched"
  /\ rq.target = "trigger"
  /\ h.pc = "idle"
  /\ LET messages == MessagesOf(rq.request)
     IN  h' = IF Len(messages) = 0
               THEN [IdleH EXCEPT !.pc = "return"]
               ELSE [IdleH EXCEPT !.pc = "process", !.messages = messages, !.i = 1,
                                  !.body = messages[1].body,
                                  !.trace = << Did("start", 1) >>]
  /\ UNCHANGED << storeVars, queueVars, polls, pl, sideVars >>

\* the response of events or trigger is the response of run
RunReturn ==
  /\ rq.pc = "dispatched"
  /\ \/ rq.target = "events" /\ pl.pc = "done" /\ rq' = [rq EXCEPT !.pc = "done", !.status = pl.resp.status]
     \/ rq.target = "trigger" /\ h.pc = "done" /\ rq' = [rq EXCEPT !.pc = "done", !.status = h.status]
  /\ UNCHANGED << storeVars, queueVars, polls, pl, h, df >>

\* the input queue holds messages and the blob store the swapped-out bodies
\* that the delivery messages of a request name
IndexInit ==
  /\ BlobInit
  /\ inQ = Inputs
  /\ outQ = <<>>
  /\ outNext = 1
  /\ swapObj = InitialBlobs
  /\ polls = 0
  /\ pl = IdlePl
  /\ h = IdleH
  /\ df = IdleDf
  /\ rq = IdleRq

IndexNext ==
  \/ Run
  \/ RunEvents
  \/ PipeSend
  \/ PipeDelete
  \/ RunTrigger
  \/ ProcessMessage
  \/ Deserialize
  \/ FetchIndex(1) /\ UNCHANGED otherVars
  \/ FetchLogFile(1) /\ UNCHANGED otherVars
  \/ PutIndex(1) /\ UNCHANGED otherVars
  \/ StoreLogFile(1) /\ UNCHANGED otherVars
  \/ AppendReturn
  \/ Cleanup
  \/ HandlerReturn
  \/ RunReturn

SpecIndex == IndexInit /\ [][IndexNext]_vars

\* the pipeline has not run / the delivery handler has not run
PipelineIdle == pl = IdlePl /\ polls = 0

HandlerIdle == h = IdleH /\ calls = 0

\* C25: a request with source 'aws.events' runs the pipeline and never the
\* delivery handler, also when records are present; otherwise records run
\* the delivery handler on them; otherwise a POST with content-type
\* application/json runs the delivery handler on the one message whose body
\* is the request's JSON; otherwise the response has status 400 and neither
\* runs.
C25_Dispatch ==
  rq.pc # "idle" =>
    LET request == rq.request
    IN  IF request.source = "aws.events"
        THEN HandlerIdle /\ rq.target = "events" /\ (rq.pc = "done" => ~PipelineIdle)
        ELSE IF request.hasRecords
        THEN /\ PipelineIdle
             /\ h.pc # "idle" => h.messages = request.records
             /\ rq.pc = "done" => h.pc = "done" /\ rq.status = 200
        ELSE IF request.method = "POST" /\ request.contentType = "application/json"
        THEN /\ PipelineIdle
             /\ h.pc # "idle" =>
                  /\ Len(h.messages) = 1
                  /\ h.messages[1].body = JsonStringify(request.json)
             /\ rq.pc = "done" => h.pc = "done" /\ rq.status = 200
        ELSE PipelineIdle /\ HandlerIdle /\ rq.pc = "done" /\ rq.status = 400

\* a request with source 'aws.events' that also carried records ran the
\* pipeline to its end, the delivery handler did not run
C25_Witness ==
  /\ rq.pc = "done"
  /\ rq.request.source = "aws.events"
  /\ rq.request.hasRecords /\ Len(rq.request.records) = 1
  /\ Len(pl.trace) = 3
  /\ rq.status = 200
  /\ HandlerIdle


(***************************************************************************)
(* Organization-level logging.                                             *)
(***************************************************************************)
\* the organizations that the value of HLX_MEDIA_LOGGING_ORGS lists: those of
\* the JSON array, none when the value is not set or is no JSON array
ListedOrgs ==
  IF pl.env.set /\ ~ParseThrows(pl.env.text) /\ JsonParse(pl.env.text).array
  THEN Range(JsonParse(pl.env.text).items) ELSE {}

\* the message that the loop groups for a parsed received message
GroupedMessage(msg) ==
  IF Falsy(PayloadOf(msg), "org") /\ Falsy(PayloadOf(msg), "site")
  THEN OwnerRepoFallback(PayloadOf(msg)) ELSE PayloadOf(msg)

\* the received messages that parsed and have an org
WithOrg ==
  { i \in 1..Len(pl.msgs) : Parsed(pl.msgs[i]) /\ "org" \in DOMAIN GroupedMessage(pl.msgs[i]) }

\* the batch with the key holds the message
InBatch(key, message) ==
  \E p \in 1..Len(pl.payloads) :
    /\ pl.payloads[p].MessageGroupId = key
    /\ message \in Range(JsonParse(pl.payloads[p].MessageBody).updates)

\* C26: after a successful receive, every received message with an org is in
\* the batch `org/site`, and is in the batch `org/*` exactly when its org is
\* listed in the configured JSON array; with a value that is no JSON array
\* there is no batch `org/*`, and an invocation answers 500 only after a
\* transport call failed.
C26_OrgLogging ==
  /\ HasCalled("receive", TRUE) =>
       /\ \A i \in WithOrg :
            LET message == GroupedMessage(pl.msgs[i])
            IN  /\ InBatch(ProjectKey(message), message)
                /\ InBatch(OrgKey(message), message) <=> message.org \in ListedOrgs
       /\ ListedOrgs = {} =>
            \A p \in 1..Len(pl.payloads) : pl.payloads[p].MessageGroupId.site # "*"
  /\ pl.resp = ErrorResponse =>
       \E op \in {"receive", "send", "delete"} : HasCalled(op, FALSE)

\* the message of org2 was received with '["org2"]' configured and is in the
\* batches org2/site2 and org2/*, and the batches were sent
C26_Witness ==
  /\ pl.env = [set |-> TRUE, text |-> JsonStringify(JsonArray(<< "org2" >>))]
  /\ HasCalled("send", TRUE)
  /\ \E i \in WithOrg :
       /\ pl.msgs[i].MessageId = 6
       /\ InBatch([org |-> "org2", site |-> "site2"], GroupedMessage(pl.msgs[i]))
       /\ InBatch([org |-> "org2", site |-> "*"], GroupedMessage(pl.msgs[i]))

\* a message was received with 'not json' configured and the invocation
\* answered 200
C26_NoArrayWitness ==
  /\ pl.env = [set |-> TRUE, text |-> Bogus]
  /\ pl.msgs # <<>>
  /\ pl.resp.status = 200


(***************************************************************************)
(* The order of the pipeline's transport calls.                            *)
(***************************************************************************)
\* the transport calls of one invocation, in the order of doRun
CallOrder == << "receive", "send", "delete" >>

\* C27: the transport calls of an invocation are an initial part of receive,
\* send, delete, each made at most once and each made only after the one
\* before it succeeded; when send failed, delete was not called, every
\* received message is still in the input queue and the invocation has ended
\* with the response 500.
C27_CallOrder ==
  /\ Len(pl.trace) <= Len(CallOrder)
  /\ \A i \in 1..Len(pl.trace) :
       /\ pl.trace[i].op = CallOrder[i]
       /\ i < Len(pl.trace) => pl.trace[i].ok
  /\ Len(pl.sent) <= 1 /\ Len(pl.deleted) <= 1
  /\ pl.deleted # <<>> => HasCalled("send", TRUE)
  /\ HasCalled("send", FALSE) =>
       /\ pl.deleted = <<>>
       /\ ReceivedIds \subseteq inQ
       /\ pl.pc = "done"
       /\ pl.resp.status = 500

\* messages were received, the send of their batch failed, they are all in
\* the input queue and the response is 500
C27_Witness ==
  /\ pl.trace = << Called("receive", TRUE), Called("send", FALSE) >>
  /\ pl.msgs # <<>> /\ pl.payloads # <<>>
  /\ pl.sent = << pl.payloads >>
  /\ ReceivedIds \subseteq inQ
  /\ pl.resp.status = 500


(***************************************************************************)
(* Redelivery and duplicates.                                              *)
(***************************************************************************)
\* how often the list holds the record
Occurrences(list, u) == Cardinality({ i \in 1..Len(list) : list[i] = u })

\* how often the existing log files of the prefix, those of ids, hold the
\* record
RECURSIVE LogOccurrences(_, _, _, _)
LogOccurrences(logs, prefix, ids, u) ==
  IF ids = {} THEN 0
  ELSE LET id == CHOOSE id \in ids : TRUE
           here == IF logs[prefix][id].exists
                   THEN Occurrences(FileArray(logs[prefix][id]), u) ELSE 0
       IN  here + LogOccurrences(logs, prefix, ids \ {id}, u)

\* the records that the service can write
Records == { EventOf(PayloadOf(SqsMessage(m))) : m \in Redelivered }

\* a successful append adds every record of its batch as often as the batch
\* holds it, whether the log held the record before or not
AppendAddsAll ==
  Succeeded(1) =>
    \A u \in Records :
      LogOccurrences(logObj, ap[1].prefix, FileIds, u)
        = LogOccurrences(pre[1].logs, ap[1].prefix, FileIds, u) + Occurrences(ap[1].updates, u)

\* the pipeline forwards every received message that parsed and has a key,
\* whether it was forwarded before or not, and a message whose delete failed
\* stays in the input queue
ForwardsAll ==
  /\ HasCalled("receive", TRUE) =>
       \A i \in 1..Len(pl.msgs) :
         Keyed(pl.msgs[i]) =>
           \E p \in 1..Len(pl.payloads) :
             /\ pl.payloads[p].MessageGroupId = PayloadOf(pl.msgs[i]).contentBusId
             /\ EventOf(PayloadOf(pl.msgs[i])) \in Range(RecordsOf(pl.payloads[p]))
  /\ HasCalled("delete", FALSE) => ReceivedIds \subseteq inQ

\* no step takes a record out of the log of a key
NeverRemoved ==
  \A prefix \in AllPrefixes : \A u \in Records :
    LogOccurrences(logObj', prefix, FileIds, u) >= LogOccurrences(logObj, prefix, FileIds, u)

\* C28: a message whose delete failed stays in the input queue, a later
\* invocation forwards what it receives whether forwarded before or not, a
\* successful append adds each record of its batch once more to the log of
\* the key, and no step removes a record: a record appended twice is in the
\* log twice.
C28_NotIdempotent == [](AppendAddsAll /\ ForwardsAll) /\ [][NeverRemoved]_vars

\* message 2 was forwarded, its delete failed, a second invocation received
\* and forwarded it again and deleted it, and the log of k1 holds its record
\* twice
C28_Witness ==
  /\ polls = 2
  /\ failures = 1
  /\ inQ = {}
  /\ Quiescent
  /\ pl.msgs = << SqsMessage(2) >>
  /\ HasCalled("delete", TRUE)
  /\ LogOccurrences(logObj, ContentBusPrefix("k1"), FileIds, EventOf(Event("k1", 2))) = 2


(***************************************************************************)
(* A failure after the swapped blob was fetched.                           *)
(***************************************************************************)
\* the blob that the swap pointer of the message at index i names was
\* fetched, and then the parsing of a fetched body or the append raised
FailedAfterFetch(i) ==
  /\ CarriesSwap(i)
  /\ FirstDid("get", i)
  /\ HDid("append raised", i) \/ HDid("parse raised", i)

\* C29: when the processing of a delivery message raises after the blob of
\* its swap pointer was fetched (a fetched body is no JSON, or the append
\* raises), no DeleteObject is made for the message, the blob is in the
\* store as it was, the message is listed in batchItemFailures, and after
\* the handler returned the message is still in the output queue.
C29_FailureKeepsBlob ==
  \A i \in 1..Len(h.messages) :
    FailedAfterFetch(i) =>
      /\ Finished(i)
      /\ ~HDid("delete", i) /\ ~HDid("delete raised", i)
      /\ swapObj[OwnBlobKey(i)].exists
      /\ swapObj[OwnBlobKey(i)] = InitialBlobs[OwnBlobKey(i)]
      /\ FailureOf(h.messages[i]) \in Range(h.batchItemFailures)
      /\ h.pc = "done" => h.messages[i] \in Range(outQ)

\* the blob of message 2 was fetched, the append of its records raised, the
\* handler returned: the blob exists, the message is listed and is in the
\* output queue
C29_Witness ==
  /\ h.pc = "done"
  /\ h.messages = << DeliveryMessage(2) >>
  /\ FailedAfterFetch(1)
  /\ HDid("append raised", 1)
  /\ swapObj[1].exists
  /\ h.batchItemFailures = << FailureOf(DeliveryMessage(2)) >>
  /\ outQ = << DeliveryMessage(2) >>

\* the blob of message 7 was fetched and is no JSON: the same
C29_ParseWitness ==
  /\ h.pc = "done"
  /\ h.messages = << DeliveryMessage(7) >>
  /\ FailedAfterFetch(1)
  /\ HDid("parse raised", 1)
  /\ swapObj[3].exists
  /\ h.batchItemFailures = << FailureOf(DeliveryMessage(7)) >>
  /\ outQ = << DeliveryMessage(7) >>


(***************************************************************************)
(* Termination of processMessage.                                          *)
(***************************************************************************)
\* processMessage is under way for the message at index i
Processing(i) == h.i = i /\ h.pc \in {"process", "deserialize", "append", "cleanup"}

\* C30: whenever processMessage is under way for a delivery message, it
\* comes to an end, whatever the blob store holds.
C30_Terminates ==
  \A i \in 1..MaxBatch : Processing(i) ~> ~Processing(i)

\* when no blob holds a swap pointer to itself, processMessage comes to an
\* end
C30_TerminatesWithoutLoop ==
  \A i \in 1..MaxBatch : (Processing(i) /\ ~swapObj[2].exists) ~> ~Processing(i)


(***************************************************************************)
(* Which file an append writes.                                            *)
(***************************************************************************)
\* the last entry of the stored Index of the prefix is id
IsCurrent(prefix, id) ==
  /\ indexObj[prefix].exists
  /\ IndexList(indexObj[prefix]) # <<>>
  /\ IndexList(indexObj[prefix])[Len(IndexList(indexObj[prefix]))] = id

\* a step that changes a log file object changes the one that the last entry
\* of the Index names, the Index being the one the call has written or found
OnlyCurrentWritten ==
  \A prefix \in AllPrefixes : \A id \in FileIds :
    logObj'[prefix][id] # logObj[prefix][id] =>
      /\ IsCurrent(prefix, id)
      /\ indexObj' = indexObj

\* C31: every write of a log file goes to the file that the last entry of
\* the Index names after the call's own Index write; a file named by an
\* earlier entry is not written again and keeps its contents.
C31_OnlyCurrentFile == [][OnlyCurrentWritten]_vars

\* an append wrote the file of the second Index entry of a key and the file
\* of the first entry is as the call found it
C31_Witness ==
  /\ Succeeded(1)
  /\ LET prefix == ap[1].prefix
         idx == IndexList(indexObj[prefix])
     IN  /\ Len(idx) = 2
         /\ ap[1].ret.key = WithGz(LogKey(prefix, idx[2]))
         /\ logObj[prefix][idx[1]].exists
         /\ logObj[prefix][idx[1]] = pre[1].logs[prefix][idx[1]]
         /\ logObj[prefix][idx[2]] # pre[1].logs[prefix][idx[2]]


(***************************************************************************)
(* Log files only grow.                                                    *)
(***************************************************************************)
\* the list old is an initial part of the list new
IsPrefixOf(old, new) ==
  /\ Len(old) <= Len(new)
  /\ SubSeq(new, 1, Len(old)) = old

\* a step keeps every object that exists, and the array of every log file
\* begins with the array the file held before the step
OnlyGrows ==
  /\ \A prefix \in AllPrefixes :
       indexObj[prefix].exists => indexObj'[prefix].exists
  /\ \A prefix \in AllPrefixes : \A id \in FileIds :
       logObj[prefix][id].exists =>
         /\ logObj'[prefix][id].exists
         /\ IsPrefixOf(FileArray(logObj[prefix][id]), FileArray(logObj'[prefix][id]))

\* C32: each rewrite of a log file stores an array of which the file's
\* previous array is an initial part, and no log file and no Index object is
\* ever deleted.
C32_FilesOnlyGrow == [][OnlyGrows]_vars

\* an append rewrote an existing file: the array it held before is a proper
\* initial part of the array it holds now
C32_Witness ==
  /\ Succeeded(1)
  /\ HadCurrentFile(1)
  /\ LET prefix == ap[1].prefix
         id == ap[1].ret.key.id
     IN  /\ pre[1].logs[prefix][id].exists
         /\ FileArray(pre[1].logs[prefix][id]) # <<>>
         /\ IsPrefixOf(FileArray(pre[1].logs[prefix][id]), FileArray(logObj[prefix][id]))
         /\ Len(FileArray(logObj[prefix][id])) > Len(FileArray(pre[1].logs[prefix][id]))


(***************************************************************************)
(* The threshold is compared with the size stored before the append.       *)
(***************************************************************************)
\* the stored size of a log file object
StoredSize(obj) == ContentLength(obj.body)

\* C33: a successful append that found a current file writes into that file
\* exactly when the size stored before the append is below 524288, whatever
\* the size of the records it adds and of the result; it then writes all its
\* records there and makes no Index write. Otherwise the append adds a new
\* file to the Index.
C33_SizeBeforeAppend ==
  \A p \in Procs :
    (Succeeded(p) /\ HadCurrentFile(p)) =>
      LET a == ap[p]
          old == IndexList(pre[p].index[a.prefix])
          cur == old[Len(old)]
          was == pre[p].logs[a.prefix][cur]
      IN  /\ a.ret.key.id = cur <=> StoredSize(was) < MAX_OBJECT_SIZE
          /\ StoredSize(was) < MAX_OBJECT_SIZE =>
               /\ FileArray(logObj[a.prefix][cur]) = FileArray(was) \o a.updates
               /\ IndexList(indexObj[a.prefix]) = old
          /\ StoredSize(was) >= MAX_OBJECT_SIZE =>
               /\ Len(IndexList(indexObj[a.prefix])) = Len(old) + 1
               /\ logObj[a.prefix][cur] = was

\* an append to a file stored with less than 524288 bytes wrote all its
\* records into that file, which is now stored with 524288 bytes or more
C33_Witness ==
  \E p \in Procs :
    /\ Succeeded(p)
    /\ HadCurrentFile(p)
    /\ LET a == ap[p]
           old == IndexList(pre[p].index[a.prefix])
           cur == old[Len(old)]
       IN  /\ StoredSize(pre[p].logs[a.prefix][cur]) < MAX_OBJECT_SIZE
           /\ a.ret.key.id = cur
           /\ StoredSize(logObj[a.prefix][cur]) >= MAX_OBJECT_SIZE
           /\ IndexList(indexObj[a.prefix]) = old


(***************************************************************************)
(* The log of a key as a whole.                                            *)
(***************************************************************************)
\* the arrays of the log files that exist among those the list names, one
\* after the other in the order of the list
RECURSIVE ConcatFiles(_, _)
ConcatFiles(files, ids) ==
  IF ids = <<>> THEN <<>>
  ELSE (IF Head(ids) \in FileIds /\ files[Head(ids)].exists
        THEN FileArray(files[Head(ids)]) ELSE <<>>)
       \o ConcatFiles(files, Tail(ids))

\* the log of a prefix in the given objects: its existing files in Index order
LogOf(index, logs, prefix) == ConcatFiles(logs[prefix], IndexList(index[prefix]))

\* the step is the successful log-file write of an append for the prefix
FileWriteSucceeds(prefix) ==
  /\ ap[1].pc = "storeLogFile"
  /\ ap[1].prefix = prefix
  /\ ap'[1].pc = "done"
  /\ ap'[1].ret.kind = "path"

\* a successful log-file write adds the records of its append at the end of
\* the log of its key, every other step leaves every log as it is
LogGrowsByAppend ==
  \A prefix \in AllPrefixes :
    LogOf(indexObj', logObj', prefix) =
      IF FileWriteSucceeds(prefix)
      THEN LogOf(indexObj, logObj, prefix) \o ap[1].updates
      ELSE LogOf(indexObj, logObj, prefix)

\* C34: the log of a key, its existing files in Index order, starts empty
\* and changes only by a successful log-file write, which adds the records of
\* that append at its end: it is the concatenation, in call order, of the
\* record lists of the appends whose log-file write succeeded.
C34_LogIsHistory ==
  /\ \A prefix \in AllPrefixes : LogOf(indexObj, logObj, prefix) = <<>>
  /\ [][LogGrowsByAppend]_vars

\* after an append whose log-file write failed, a second append succeeded:
\* the Index has two entries, the first file does not exist, and the log is
\* the record list of the second append
C34_Witness ==
  /\ calls = 2
  /\ failures = 1
  /\ Succeeded(1)
  /\ LET prefix == ap[1].prefix
         idx == IndexList(indexObj[prefix])
     IN  /\ Len(idx) = 2
         /\ ~logObj[prefix][idx[1]].exists
         /\ LogOf(indexObj, logObj, prefix) = ap[1].updates

\* two appends succeeded, the second into a new file: the log is the record
\* list of the first followed by that of the second
C34_TwoFilesWitness ==
  /\ calls = 2
  /\ Succeeded(1)
  /\ LET prefix == ap[1].prefix
         idx == IndexList(indexObj[prefix])
     IN  /\ Len(idx) = 2
         /\ logObj[prefix][idx[1]].exists
         /\ LogOf(indexObj, logObj, prefix)
              = LogOf(pre[1].index, pre[1].logs, prefix) \o ap[1].updates
         /\ LogOf(pre[1].index, pre[1].logs, prefix) # <<>>


(***************************************************************************)
(* Appends to different keys.                                              *)
(***************************************************************************)
\* the request is one for an object of the prefix
UnderPrefix(req, prefix) == req.key.org = prefix.org /\ req.key.site = prefix.site

\* the call of p made the request
Requested(p, req) == \E i \in 1..Len(reqs[p]) : reqs[p][i] = req

\* what holds of a call of p on its key, whatever the other caller does: it
\* requests only objects of its key, the objects of its key differ from
\* what it found only where it wrote them itself, and when it has returned
\* the log of its key is the log it found, with its records at the end if
\* it succeeded
AsIfAlone(p) ==
  LET prefix == ap[p].prefix
  IN  /\ \A i \in 1..Len(reqs[p]) : UnderPrefix(reqs[p][i], prefix)
      /\ indexObj[prefix] # pre[p].index[prefix] =>
           Requested(p, Req("PUT", IndexKey(prefix), 200))
      /\ \A id \in FileIds :
           logObj[prefix][id] # pre[p].logs[prefix][id] =>
             Requested(p, Req("PUT", WithGz(LogKey(prefix, id)), 200))
      /\ Returned(p) =>
           LogOf(indexObj, logObj, prefix) =
             LogOf(pre[p].index, pre[p].logs, prefix)
               \o (IF Succeeded(p) THEN ap[p].updates ELSE <<>>)

\* a step changes objects of the key of the caller that takes it only
OwnKeyOnly ==
  \A prefix \in AllPrefixes :
    (indexObj'[prefix] # indexObj[prefix] \/ logObj'[prefix] # logObj[prefix]) =>
      \E p \in Procs : ap[p].prefix = prefix /\ ap'[p] # ap[p]

\* C35: of two interleaved appends on two keys each requests and changes
\* only the Index and the log files of its own key, and each leaves its key
\* as it would have running alone on the store it found: the final store is
\* that of the two appends made one after the other, in either order.
C35_KeysIndependent ==
  /\ [](\A p \in Procs : ap[p].pc # "idle" => AsIfAlone(p))
  /\ [][OwnKeyOnly]_vars

\* both calls succeeded, interleaved: each made requests before the other
\* returned, and each key's log has the records of its call at the end
C35_Witness ==
  /\ Succeeded(1) /\ Succeeded(2)
  /\ ap[1].prefix # ap[2].prefix
  /\ pre[2].index[ap[1].prefix] = pre[1].index[ap[1].prefix]
  /\ pre[1].index[ap[2].prefix] = pre[2].index[ap[2].prefix]
  /\ pre[2].logs = pre[1].logs
  /\ \A p \in Procs :
       /\ ap[p].updates # <<>>
       /\ LogOf(indexObj, logObj, ap[p].prefix) # ap[p].updates
       /\ LogOf(indexObj, logObj, ap[p].prefix) =
            LogOf(pre[p].index, pre[p].logs, ap[p].prefix) \o ap[p].updates


(***************************************************************************)
(* The notification wrapper.                                               *)
(***************************************************************************)
\* the message with the payload of msg as its body, without the wrapper
Unwrapped(msg) ==
  IF msg.MessageId <= NumPayloads THEN msg ELSE WrapMessage(msg.MessageId - NumPayloads)

\* the payload of the message has the shape of a notification itself
WrapperShaped(msg) ==
  LET text == Unwrapped(msg).Body
  IN  ~ParseThrows(text) /\ IsSns(JsonParse(text))

\* the batches made of the received messages are the batches made of the
\* same payloads received without wrapper
SameAsUnwrapped ==
  pl.payloads =
    Payloads(GroupFrom(<<>>, [i \in 1..Len(pl.msgs) |-> Unwrapped(pl.msgs[i])]))

\* C36 as stated: whatever the payloads are, the received messages give the
\* batches that the same payloads give when received without wrapper: the
\* same keys, with the same records at the same positions.
C36_WrapperTransparent ==
  HasCalled("receive", TRUE) => SameAsUnwrapped

\* C36, amended: the same for payloads that do not have the shape of a
\* notification themselves.
C36_TransparentForEvents ==
  (HasCalled("receive", TRUE) /\ \A i \in 1..Len(pl.msgs) : ~WrapperShaped(pl.msgs[i]))
    => SameAsUnwrapped

\* an event of k1 in a wrapper and an event of k2 without were received: the
\* batches are those of k1 and k2, in this order, with one record each
C36_Witness ==
  /\ HasCalled("receive", TRUE)
  /\ pl.msgs = << WrapMessage(NumPayloads + 1), WrapMessage(2) >>
  /\ SameAsUnwrapped
  /\ Len(pl.payloads) = 2
  /\ pl.payloads[1].MessageGroupId = "k1"
  /\ RecordsOf(pl.payloads[1]) = << EventOf(Event("k1", 1)) >>
  /\ pl.payloads[2].MessageGroupId = "k2"


(***************************************************************************)
(* The manual test mode of the entry point.                                *)
(***************************************************************************)
\* the request reached the delivery handler as a POST of JSON, and the JSON
\* is an array of n messages
ManualArray(n) ==
  /\ rq.pc # "idle"
  /\ rq.target = "trigger"
  /\ IsManual(rq.request)
  /\ rq.request.json = MessageArray(n)

\* the delivery handler has begun the append of the records of its i-th
\* message
AppendBegun(i) == \E k \in 1..Len(h.trace) : h.trace[k] = Did("append", i)

\* C37: a POST whose JSON body is an array of n delivery messages makes the
\* delivery handler process n messages, the elements of the array in their
\* order, and append the records of each.
C37_ManualArray ==
  \A n \in 1..2 :
    (ManualArray(n) /\ h.pc # "idle") =>
      /\ Len(h.messages) = n
      /\ \A i \in 1..n : h.messages[i].body = rq.request.json.items[i].body
      /\ h.pc = "done" => \A i \in 1..n : AppendBegun(i)

\* what the code does with the array of two messages: the delivery handler
\* has processed one message, whose body is the text of the whole array, has
\* found no records in it and has appended nothing
C37_ArrayIsOneMessage ==
  /\ ManualArray(2)
  /\ h.pc = "done"
  /\ Len(h.messages) = 1
  /\ h.messages[1].body = JsonStringify(MessageArray(2))
  /\ h.trace = << Did("start", 1), Did("warn", 1) >>
  /\ calls = 0
  /\ rq.status = 200

=============================================================================
